---- MODULE Spec2Model ----
(***************************************************************************)
(* Bonus engine (app/src/lib/bonusEngine.js) and the override layer of the *)
(* character sheet (app/src/pages/CharacterSheet.jsx, AbilityScoreInspector*)
(* and ACInspector).                                                       *)
(*                                                                         *)
(* Encoding of JavaScript values:                                          *)
(*   - a slot that may be null/undefined is a sequence of length <= 1:     *)
(*     <<>> is null/undefined, <<v>> is the value v;                       *)
(*   - a target string is [head, rest]: head is the text before the first  *)
(*     dot, rest is <<>> when the string has no dot and <<r>> when the     *)
(*     text after the first dot is r ("skill.history" is                   *)
(*     [head |-> "skill", rest |-> <<"history">>], "ac" is                 *)
(*     [head |-> "ac", rest |-> <<>>]);                                    *)
(*   - a JS object used as a map is a function whose DOMAIN is its set of  *)
(*     own keys.                                                           *)
(***************************************************************************)
EXTENDS Integers, Sequences, FiniteSets, TLC

VARIABLES
    base,              \* deriveCharacterStats: the `base` argument being prepared
    bonuses,           \* deriveCharacterStats: the `bonuses` argument being prepared
    derivedStats,      \* <<>> or <<[base, bonuses, threw, out]>>: the last deriveCharacterStats call
    benefitHandlers,   \* bonusEngine.js: the module-level handler registry (type -> handler)
    baseCharacterData, \* collectBonuses: the `baseCharacterData` argument being prepared
    items,             \* collectBonuses: the `items` argument being prepared
    features,          \* collectBonuses: the `features` argument being prepared
    overrides,         \* collectBonuses: the `overrides` argument being prepared
    collected,         \* <<>> or <<[args, handlers, threw, out]>>: the last collectBonuses call
    prevCollected,     \* the value of `collected` before the last collectBonuses call
    character,         \* CharacterSheet: the character record shown (<<>> before one is loaded)
    inspectorState,    \* CharacterSheet: inspectorState (ability inspector, custom modifiers, overrides)
    acInspectorOpen,   \* CharacterSheet: acInspectorOpen
    acCustomModifiers, \* CharacterSheet: acCustomModifiers
    acCustomOverride,  \* CharacterSheet: acCustomOverride (<<>> is null)
    localStorage,      \* window.localStorage: key -> stored text
    currentHP,         \* CharacterSheet: currentHP (<<>> is null)
    tempHP,            \* CharacterSheet: tempHP
    maxHPModifier,     \* CharacterSheet: maxHPModifier
    isHPModalOpen,     \* CharacterSheet: isHPModalOpen
    damageInput,       \* CharacterSheet: damageInput, the text of the amount field
    selectedCharacterId, \* useCharacter: selectedCharacterId ("" before a selection)
    hookCharacter,     \* useCharacter: its `character` state (<<>> is null)
    relatedLoading,    \* useCharacter: relatedLoading
    error,             \* useCharacter: error
    requests           \* useCharacter: the queries started, each with the id its closure holds

deriveVars == <<base, bonuses, derivedStats>>
collectVars == <<benefitHandlers, baseCharacterData, items, features, overrides,
                 collected, prevCollected>>
hpVars == <<currentHP, tempHP, maxHPModifier, isHPModalOpen, damageInput>>
hookVars == <<selectedCharacterId, hookCharacter, relatedLoading, error, requests>>
sheetVars == <<character, inspectorState, acInspectorOpen, acCustomModifiers,
               acCustomOverride, localStorage, hpVars, hookVars>>

vars == <<deriveVars, collectVars, sheetVars>>

----------------------------------------------------------------------------
(* Generic helpers *)

None == <<>>
Some(x) == <<x>>

Max(a, b) == IF a >= b THEN a ELSE b
Min(a, b) == IF a <= b THEN a ELSE b

\* obj[key] || dflt for a numeric map: a missing key and the value 0 both give dflt
GetOr(obj, key, dflt) == IF key \in DOMAIN obj /\ obj[key] # 0 THEN obj[key] ELSE dflt

\* obj[key] || [] for a map of lists
GetList(obj, key) == IF key \in DOMAIN obj THEN obj[key] ELSE <<>>

\* { ...obj, [key]: val }
Put(obj, key, val) == [k \in DOMAIN obj \cup {key} |-> IF k = key THEN val ELSE obj[k]]

EmptyMap == [k \in {} |-> 0]

Target(head, rest) == [head |-> head, rest |-> rest]
Plain(head) == Target(head, None)
Dotted(head, name) == Target(head, Some(name))

\* target.startsWith(prefix + '.')
StartsWith(target, prefix) == target.head = prefix /\ target.rest # None

\* target === name, for a name without a dot
IsExactly(target, name) == target.head = name /\ target.rest = None

\* target.replace(prefix + '.', '') for a target that starts with the prefix
StripPrefix(target) == target.rest[1]

\* String.prototype.toLowerCase on the names used in this model
ToLowerCase(s) ==
    CASE s = "Walk" -> "walk"
      [] s = "Fly" -> "fly"
      [] s = "Darkvision" -> "darkvision"
      [] s = "AC" -> "ac"
      [] s = "toString" -> "tostring"
      [] s = "hasOwnProperty" -> "hasownproperty"
      [] OTHER -> s

\* Names every plain object inherits from Object.prototype: obj[name] and
\* `name in obj` find them although obj has no such own key. The model holds
\* the ones its inputs use.
ObjectPrototypeKeys == {"constructor", "toString", "hasOwnProperty", "__proto__"}

----------------------------------------------------------------------------
(* bonusEngine.js *)

abilityOrder == <<"strength", "dexterity", "constitution", "intelligence", "wisdom", "charisma">>

Abilities == {abilityOrder[i] : i \in DOMAIN abilityOrder}

\* a modifier that truncates toward zero, as integer division does in many languages
abilityModifierTruncating(score) ==
    IF score >= 10 THEN (score - 10) \div 2 ELSE 0 - ((10 - score) \div 2)

\* Math.floor((score - 10) / 2); \div rounds toward negative infinity
abilityModifier(score) == (score - 10) \div 2

emptyAbilityMap == [a \in Abilities |-> 0]

emptySourceMap == [a \in Abilities |-> <<>>]

normalizeSpeedType(value) == ToLowerCase(value)

\* toSenseMap: senses is a sequence of [sense_type, range]; a falsy
\* sense_type ("") is skipped, duplicate types collapse by max
RECURSIVE toSenseMapFrom(_, _)
toSenseMapFrom(senses, acc) ==
    IF senses = <<>> THEN acc
    ELSE LET sense == Head(senses)
             next == IF sense.sense_type = "" THEN acc
                     ELSE Put(acc, sense.sense_type,
                              Max(GetOr(acc, sense.sense_type, 0), sense.range))
         IN toSenseMapFrom(Tail(senses), next)

toSenseMap(senses) == toSenseMapFrom(senses, EmptyMap)

emptyTotals ==
    [abilities |-> emptyAbilityMap, maxHP |-> 0, ac |-> 0, initiative |-> 0,
     passivePerception |-> 0, skills |-> EmptyMap, saves |-> EmptyMap,
     speeds |-> EmptyMap, senses |-> EmptyMap]

emptySources ==
    [abilities |-> emptySourceMap, maxHP |-> <<>>, ac |-> <<>>, initiative |-> <<>>,
     passivePerception |-> <<>>, skills |-> EmptyMap, saves |-> EmptyMap,
     speeds |-> EmptyMap, senses |-> EmptyMap]

\* a keyed bucket that keeps the last bonus instead of adding it
AddIntoOverwriting(map, key, value) == Put(map, key, value)

\* the sum merge of one bonus into a keyed bucket:
\* totals.X[key] = (totals.X[key] || 0) + bonus.value
AddInto(map, key, value) == Put(map, key, GetOr(map, key, 0) + value)

\* a sense bucket that stacks the bonuses instead of keeping the largest
MaxIntoStacking(map, key, value) == Put(map, key, GetOr(map, key, 0) + value)

\* the max merge of one bonus into the sense bucket
MaxInto(map, key, value) == Put(map, key, Max(GetOr(map, key, 0), value))

\* a keyed source list that holds the last bonus only
AppendIntoReplacing(map, key, bonus) == Put(map, key, <<bonus>>)

AppendInto(map, key, bonus) == Put(map, key, Append(GetList(map, key), bonus))

\* the body of bonuses.forEach in deriveCharacterStats; acc is [totals, sources],
\* slot is one element of the bonuses array (<<>> for a null element)
RouteBonus(acc, slot) ==
    IF slot = None THEN acc
    ELSE
    LET bonus == slot[1]
        target == bonus.target[1]
        value == bonus.value[1]
        t == acc.totals
        s == acc.sources
    IN  IF StartsWith(target, "ability") THEN
            LET ability == StripPrefix(target) IN
            IF ability \in DOMAIN t.abilities
            THEN [totals |-> [t EXCEPT !.abilities[ability] = @ + value],
                  sources |-> [s EXCEPT !.abilities[ability] = Append(@, bonus)]]
            ELSE acc
        ELSE IF IsExactly(target, "maxHP") THEN
            [totals |-> [t EXCEPT !.maxHP = @ + value],
             sources |-> [s EXCEPT !.maxHP = Append(@, bonus)]]
        ELSE IF IsExactly(target, "ac") THEN
            [totals |-> [t EXCEPT !.ac = @ + value],
             sources |-> [s EXCEPT !.ac = Append(@, bonus)]]
        ELSE IF IsExactly(target, "initiative") THEN
            [totals |-> [t EXCEPT !.initiative = @ + value],
             sources |-> [s EXCEPT !.initiative = Append(@, bonus)]]
        ELSE IF IsExactly(target, "passivePerception") THEN
            [totals |-> [t EXCEPT !.passivePerception = @ + value],
             sources |-> [s EXCEPT !.passivePerception = Append(@, bonus)]]
        ELSE IF StartsWith(target, "skill") THEN
            LET skill == StripPrefix(target) IN
            [totals |-> [t EXCEPT !.skills = AddInto(@, skill, value)],
             sources |-> [s EXCEPT !.skills = AppendInto(@, skill, bonus)]]
        ELSE IF StartsWith(target, "save") THEN
            LET save == StripPrefix(target) IN
            [totals |-> [t EXCEPT !.saves = AddInto(@, save, value)],
             sources |-> [s EXCEPT !.saves = AppendInto(@, save, bonus)]]
        ELSE IF StartsWith(target, "speed") THEN
            LET speedType == normalizeSpeedType(StripPrefix(target)) IN
            IF speedType # ""
            THEN [totals |-> [t EXCEPT !.speeds = AddInto(@, speedType, value)],
                  sources |-> [s EXCEPT !.speeds = AppendInto(@, speedType, bonus)]]
            ELSE acc
        ELSE IF StartsWith(target, "sense") THEN
            LET senseType == normalizeSpeedType(StripPrefix(target)) IN
            IF senseType # ""
            THEN [totals |-> [t EXCEPT !.senses = MaxInto(@, senseType, value)],
                  sources |-> [s EXCEPT !.senses = AppendInto(@, senseType, bonus)]]
            ELSE acc
        ELSE acc

RECURSIVE FoldBonuses(_, _)
FoldBonuses(list, acc) ==
    IF list = <<>> THEN acc ELSE FoldBonuses(Tail(list), RouteBonus(acc, Head(list)))

\* base?.field ?? 0 for a numeric field held as a slot
OrZero(slot) == IF slot = None THEN 0 ELSE slot[1]

\* base?.abilities?.[key] ?? 0
BaseScore(b, key) ==
    IF b.abilities = None THEN 0
    ELSE IF key \in DOMAIN b.abilities[1] THEN b.abilities[1][key] ELSE 0

\* mergedSenses, then the entries with range > 0; the result maps each
\* reported sense_type to its range (the order of the entries is not modelled)
DerivedSenses(b, totals) ==
    LET baseSensesMap == toSenseMap(b.senses)
        merged == [k \in DOMAIN baseSensesMap \cup DOMAIN totals.senses |->
                     IF k \in DOMAIN totals.senses
                     THEN Max(GetOr(baseSensesMap, k, 0), totals.senses[k])
                     ELSE baseSensesMap[k]]
        kept == {k \in DOMAIN merged : merged[k] > 0}
    IN [k \in kept |-> merged[k]]

\* speeds merged like senses: the larger of the base speed and the bonus total
DerivedSpeedsMaxMerged(b, totals) ==
    LET baseSpeeds == b.speeds
    IN [k \in DOMAIN baseSpeeds \cup DOMAIN totals.speeds |->
          IF k \in DOMAIN totals.speeds
          THEN Max(GetOr(baseSpeeds, k, 0), totals.speeds[k])
          ELSE baseSpeeds[k]]

\* derivedSpeeds = { ...baseSpeeds }, then += totals.speeds[type] for each type
DerivedSpeeds(b, totals) ==
    LET baseSpeeds == b.speeds
    IN [k \in DOMAIN baseSpeeds \cup DOMAIN totals.speeds |->
          IF k \in DOMAIN totals.speeds
          THEN GetOr(baseSpeeds, k, 0) + totals.speeds[k]
          ELSE baseSpeeds[k]]

deriveCharacterStats(b, list) ==
    LET folded == FoldBonuses(list, [totals |-> emptyTotals, sources |-> emptySources])
        totals == folded.totals
        derivedAbilities == [key \in Abilities |-> BaseScore(b, key) + totals.abilities[key]]
        derivedModifiers == [key \in Abilities |-> abilityModifier(derivedAbilities[key])]
    IN [derived |->
          [abilities |-> derivedAbilities,
           modifiers |-> derivedModifiers,
           maxHP |-> OrZero(b.maxHP) + totals.maxHP,
           proficiency |-> OrZero(b.proficiency),
           ac |-> OrZero(b.acBase) + totals.ac,
           initiative |-> OrZero(b.initiativeBase) + totals.initiative,
           passivePerception |-> OrZero(b.passivePerceptionBase) + totals.passivePerception,
           senses |-> DerivedSenses(b, totals),
           speeds |-> DerivedSpeeds(b, totals)],
        totals |-> totals,
        sources |-> folded.sources]

\* The bonuses on which the forEach body of deriveCharacterStats raises a
\* TypeError: bonus.target is not a string (target.startsWith), or the name
\* after the prefix is inherited from Object.prototype, so that
\* sources.abilities[name].push is not a function (`name in totals.abilities`
\* holds) or sources.X[name] || [] is an inherited member that cannot be
\* spread.
RouteThrows(slot) ==
    /\ slot # None
    /\ LET bonus == slot[1] IN
       \/ bonus.target = None
       \/ /\ bonus.target # None
          /\ LET target == bonus.target[1] IN
             \/ /\ \/ StartsWith(target, "ability")
                   \/ StartsWith(target, "skill")
                   \/ StartsWith(target, "save")
                /\ StripPrefix(target) \in ObjectPrototypeKeys
             \/ /\ \/ StartsWith(target, "speed")
                   \/ StartsWith(target, "sense")
                /\ normalizeSpeedType(StripPrefix(target)) \in ObjectPrototypeKeys

deriveCharacterStatsThrows(list) == \E i \in DOMAIN list : RouteThrows(list[i])

\* the outcome of deriveCharacterStats({ base, bonuses }): an exception, or
\* the returned { derived, totals, sources }
deriveOutcome(b, list) ==
    IF deriveCharacterStatsThrows(list)
    THEN [threw |-> TRUE, out |-> None]
    ELSE [threw |-> FALSE, out |-> deriveCharacterStats(b, list)]

\* an array of bonus objects as deriveCharacterStats receives it: no element is null
AsSlots(list) == [i \in DOMAIN list |-> Some(list[i])]

\* a normalizer that reads a missing value as 0 instead of rejecting the bonus
normalizeBonusLenient(slot, source) ==
    IF slot = None THEN None
    ELSE LET bonus == slot[1] IN
         IF bonus.target = None THEN None
         ELSE Some([target |-> bonus.target,
                    value |-> IF bonus.value = None THEN Some(0) ELSE bonus.value,
                    type |-> IF bonus.type # "" THEN bonus.type ELSE "untyped",
                    source |-> IF source # None THEN source[1]
                               ELSE IF bonus.source # None THEN bonus.source[1]
                               ELSE [label |-> "Unknown"]])

\* normalizeBonus(bonus, source): slot is <<>> for null or a non-object;
\* a raw bonus holds target and value as slots (<<>> when missing or of the
\* wrong type), type as a string ("" when missing) and source as a slot.
\* The result is <<>> for null, else <<normalized bonus>>.
normalizeBonus(slot, source) ==
    IF slot = None THEN None
    ELSE LET bonus == slot[1] IN
         IF bonus.target = None THEN None
         ELSE IF bonus.value = None THEN None
         ELSE Some([target |-> bonus.target,
                    value |-> bonus.value,
                    type |-> IF bonus.type # "" THEN bonus.type ELSE "untyped",
                    source |-> IF source # None THEN source[1]
                               ELSE IF bonus.source # None THEN bonus.source[1]
                               ELSE [label |-> "Unknown"]])

\* A modifier reference string is held as its sequence of "_"-separated
\* words: "charisma_modifier_doubled" is <<"charisma", "modifier", "doubled">>.
\* The regular expression /^(\w+)_modifier(?:_(\w+))?$/ has a greedy first
\* group: it ends before the last word "modifier" that has a word before it.
ModifierWordAt(words) ==
    LET I == {i \in 2..Len(words) : words[i] = "modifier"}
    IN IF I = {} THEN 0 ELSE CHOOSE i \in I : \A j \in I : j <= i

\* the text of a group of words: a single word is itself
JoinWords(words) ==
    IF Len(words) = 1 THEN words[1]
    ELSE IF Len(words) = 0 THEN ""
    ELSE "<several_words>"

\* resolveModifierValue(modifierString, baseCharacterData); ref is <<>> for a
\* missing or non-string reference, else <<words>>
resolveModifierValue(ref, data) ==
    IF ref = None \/ ref = Some(<<>>) THEN 0
    ELSE LET words == ref[1] IN
         IF words = <<"proficiency", "bonus">> THEN GetOr(data, "proficiency", 2)
         ELSE LET at == ModifierWordAt(words) IN
              IF at = 0 THEN 0
              ELSE LET ability == JoinWords(SubSeq(words, 1, at - 1))
                       modifier == JoinWords(SubSeq(words, at + 1, Len(words)))
                       abilityScore == GetOr(data, ability, 10)
                       value == abilityModifier(abilityScore)
                   IN IF modifier = "doubled" THEN value * 2
                      ELSE IF modifier = "halved" THEN value \div 2
                      ELSE value

\* a handler that keeps a value of 0 and emits zero-valued bonuses
ZeroValueKept(value) == FALSE

\* if (value === 0) return []
ZeroValueSuppressed(value) == value = 0

\* a fan-out that emits a bonus for the first listed name only
FanOutFirstOnly(names, prefix, benefit, data, source) ==
    IF names = None \/ benefit.bonus_source = None \/ benefit.bonus_source = Some(<<>>)
    THEN <<>>
    ELSE LET value == resolveModifierValue(benefit.bonus_source, data) IN
         IF ZeroValueSuppressed(value) \/ names[1] = <<>> THEN <<>>
         ELSE <<Some([target |-> Some(Dotted(prefix, names[1][1])),
                      value |-> Some(value),
                      type |-> "untyped",
                      source |-> source])>>

\* the shared body of skill_modifier_bonus, ability_modifier_bonus and
\* save_modifier_bonus: names is the slot of the listed names (<<>> when the
\* field is not an array)
FanOut(names, prefix, benefit, data, source) ==
    IF names = None \/ benefit.bonus_source = None \/ benefit.bonus_source = Some(<<>>)
    THEN <<>>
    ELSE LET value == resolveModifierValue(benefit.bonus_source, data) IN
         IF ZeroValueSuppressed(value) THEN <<>>
         ELSE [i \in DOMAIN names[1] |->
                 Some([target |-> Some(Dotted(prefix, names[1][i])),
                       value |-> Some(value),
                       type |-> "untyped",
                       source |-> source])]

\* what a handler supplied by a caller returns: a null element, an object
\* without target, an object without value, and a bonus that carries a type
\* and a source of its own
CallerHandlerOutput ==
    <<None,
      Some([target |-> None, value |-> Some(1), type |-> "", source |-> None]),
      Some([target |-> Some(Plain("ac")), value |-> None, type |-> "", source |-> None]),
      Some([target |-> Some(Plain("initiative")), value |-> Some(1), type |-> "luck",
            source |-> Some([label |-> "Own"])])>>

\* the built-in handlers of benefitHandlers, named by their key, and the
\* handler of a caller ("caller_handler")
ApplyHandler(handler, benefit, data, source) ==
    CASE handler = "skill_modifier_bonus" -> FanOut(benefit.skills, "skill", benefit, data, source)
      [] handler = "ability_modifier_bonus" -> FanOut(benefit.abilities, "ability", benefit, data, source)
      [] handler = "save_modifier_bonus" -> FanOut(benefit.saves, "save", benefit, data, source)
      [] handler = "skill_proficiency" -> <<>>
      [] handler = "skill_dual_ability" -> <<>>
      [] handler = "skill_half_proficiency" -> <<>>
      [] handler = "ac_bonus" ->
            IF benefit.value = None THEN <<>>
            ELSE <<Some([target |-> Some(Plain("ac")),
                         value |-> benefit.value,
                         type |-> IF benefit.bonus_type # "" THEN benefit.bonus_type ELSE "untyped",
                         source |-> source])>>
      [] handler = "caller_handler" -> CallerHandlerOutput

BuiltinHandlers ==
    [t \in {"skill_modifier_bonus", "ability_modifier_bonus", "save_modifier_bonus",
            "skill_proficiency", "skill_dual_ability", "skill_half_proficiency",
            "ac_bonus"} |-> t]

\* benefitHandlers[type] finds an inherited member when the registry has no
\* such own key; handler(benefit, baseCharacterData, source) then
\*   - "toString": returns the string "[object Undefined]", which flatMap
\*     keeps as one element that is not an object;
\*   - "constructor": Object(benefit) returns the benefit itself, which is
\*     then read as a raw bonus (the benefits of this model have no target);
\*   - "hasOwnProperty": raises a TypeError (its `this` is undefined);
\*   - "__proto__": is Object.prototype, not a function: the call raises a
\*     TypeError.
InheritedHandlerThrows(type) == type \in {"hasOwnProperty", "__proto__"}

InheritedHandlerResult(type, benefit) ==
    CASE type = "toString" -> <<None>>
      [] type = "constructor" ->
            <<Some([target |-> None, value |-> benefit.value,
                    type |-> benefit.type, source |-> None])>>
      [] OTHER -> <<>>

\* convertBenefitToBonus(benefit, baseCharacterData, source): slot is <<>>
\* for a null or non-object benefit; type "" is a missing type
convertBenefitToBonus(slot, data, source) ==
    IF slot = None THEN <<>>
    ELSE LET benefit == slot[1] IN
         IF benefit.type = "" THEN <<>>
         ELSE IF benefit.type \in DOMAIN benefitHandlers
         THEN ApplyHandler(benefitHandlers[benefit.type], benefit, data, source)
         ELSE IF benefit.type \in ObjectPrototypeKeys
         THEN InheritedHandlerResult(benefit.type, benefit)
         ELSE <<>>

\* convertBenefitToBonus raises a TypeError
convertBenefitThrows(slot) ==
    /\ slot # None
    /\ slot[1].type # ""
    /\ slot[1].type \notin DOMAIN benefitHandlers
    /\ slot[1].type \in ObjectPrototypeKeys
    /\ InheritedHandlerThrows(slot[1].type)

\* processBenefits(benefits, baseCharacterData, source): flatMap over the array
RECURSIVE FlatMapBenefits(_, _, _)
FlatMapBenefits(benefits, data, source) ==
    IF benefits = <<>> THEN <<>>
    ELSE convertBenefitToBonus(Head(benefits), data, source)
         \o FlatMapBenefits(Tail(benefits), data, source)

processBenefits(benefits, data, source) ==
    IF benefits = None THEN <<>> ELSE FlatMapBenefits(benefits[1], data, source)

\* pushBonus over a list of raw bonus slots: the normalized ones, in order
RECURSIVE pushBonuses(_, _)
pushBonuses(slots, source) ==
    IF slots = <<>> THEN <<>>
    ELSE LET normalized == normalizeBonus(Head(slots), source)
         IN normalized \o pushBonuses(Tail(slots), source)

\* a label that prefers the title to the label and the name
EntryLabelTitleFirst(entry) ==
    IF entry.title # "" THEN entry.title
    ELSE IF entry.label # "" THEN entry.label
    ELSE IF entry.name # "" THEN entry.name
    ELSE "Unknown"

\* entry.name || entry.label || entry.title || 'Unknown'
EntryLabel(entry) ==
    IF entry.name # "" THEN entry.name
    ELSE IF entry.label # "" THEN entry.label
    ELSE IF entry.title # "" THEN entry.title
    ELSE "Unknown"

\* an entry loop that records a placeholder bonus for a null entry instead
\* of skipping it
collectFromEntryKeepingNull(slot, sourceType, data) ==
    IF slot = None
    THEN <<[target |-> Some(Plain("ac")), value |-> Some(0), type |-> "untyped",
            source |-> [type |-> sourceType, id |-> "", label |-> "Unknown"]]>>
    ELSE LET entry == slot[1]
             source == Some([type |-> sourceType, id |-> entry.id, label |-> EntryLabel(entry)])
             traditional == IF entry.bonuses # None THEN pushBonuses(entry.bonuses[1], source)
                            ELSE IF entry.bonus # None THEN pushBonuses(<<entry.bonus>>, source)
                            ELSE <<>>
             fromBenefits == IF entry.benefits # None
                             THEN pushBonuses(processBenefits(entry.benefits, data, source), source)
                             ELSE <<>>
         IN traditional \o fromBenefits

\* benefit bonuses that enter the result as the handler returned them
pushBenefitBonusesAsReturned(slots, source) ==
    LET IsObject(slot) == slot # None
        objects == SelectSeq(slots, IsObject)
    IN [i \in DOMAIN objects |->
           [target |-> objects[i][1].target, value |-> objects[i][1].value,
            type |-> objects[i][1].type,
            source |-> IF objects[i][1].source # None THEN objects[i][1].source[1]
                       ELSE source[1]]]

\* benefitBonuses.forEach(bonus => pushBonus(bonus, source))
pushBenefitBonuses(slots, source) == pushBonuses(slots, source)

\* the body of list.forEach in collectFromList, for one entry slot
collectFromEntry(slot, sourceType, data) ==
    IF slot = None THEN <<>>
    ELSE LET entry == slot[1]
             source == Some([type |-> sourceType, id |-> entry.id, label |-> EntryLabel(entry)])
             traditional == IF entry.bonuses # None THEN pushBonuses(entry.bonuses[1], source)
                            ELSE IF entry.bonus # None THEN pushBonuses(<<entry.bonus>>, source)
                            ELSE <<>>
             fromBenefits ==
                 IF entry.benefits # None
                 THEN pushBenefitBonuses(processBenefits(entry.benefits, data, source), source)
                 ELSE <<>>
         IN traditional \o fromBenefits

RECURSIVE collectFromList(_, _, _)

\* a list walk that stops after the first entry
collectFromListHeadOnly(list, sourceType, data) ==
    IF list = <<>> THEN <<>>
    ELSE collectFromEntry(Head(list), sourceType, data)

\* list.forEach((entry) => { ... }) of collectFromList
collectFromList(list, sourceType, data) ==
    IF list = <<>> THEN <<>>
    ELSE collectFromEntry(Head(list), sourceType, data)
         \o collectFromList(Tail(list), sourceType, data)

OverrideSource == [type |-> "override", label |-> "Override"]

\* an accumulator that lives across calls and still holds the last result
AccumulatorKept == IF collected # None THEN collected[1].out ELSE <<>>

\* const collected = []: every call starts from an empty accumulator
AccumulatorFresh == <<>>

\* a collection that resolves benefits against the scores raised by the
\* collected ability bonuses instead of the base scores
collectBonusesAgainstDerived(args) ==
    LET data == args.baseCharacterData
        over == IF args.overrides # None
                THEN pushBonuses(args.overrides[1], Some(OverrideSource)) ELSE <<>>
        plain == collectFromList(args.items, "item", data)
                 \o collectFromList(args.features, "feature", data) \o over
        Raise(k) == LET I == {i \in DOMAIN plain : plain[i].target[1] = Dotted("ability", k)}
                    IN IF I = {} THEN 0 ELSE plain[CHOOSE i \in I : TRUE].value[1]
        raised == [k \in DOMAIN data |-> data[k] + Raise(k)]
    IN collectFromList(args.items, "item", raised)
       \o collectFromList(args.features, "feature", raised) \o over

\* collectBonuses({ items, features, baseCharacterData, overrides }); the
\* overrides argument is a slot (<<>> when it is not an array)
collectBonuses(args) ==
    AccumulatorFresh
    \o collectFromList(args.items, "item", args.baseCharacterData)
    \o collectFromList(args.features, "feature", args.baseCharacterData)
    \o (IF args.overrides # None THEN pushBonuses(args.overrides[1], Some(OverrideSource))
        ELSE <<>>)

\* collectFromList raises: some listed entry holds a benefit on which
\* convertBenefitToBonus raises
collectFromListThrows(list) ==
    \E i \in DOMAIN list :
        /\ list[i] # None
        /\ list[i][1].benefits # None
        /\ \E j \in DOMAIN list[i][1].benefits[1] :
              convertBenefitThrows(list[i][1].benefits[1][j])

collectBonusesThrows(args) ==
    collectFromListThrows(args.items) \/ collectFromListThrows(args.features)

\* the outcome of collectBonuses(args): an exception, or the returned list
collectOutcome(args) ==
    IF collectBonusesThrows(args)
    THEN [threw |-> TRUE, out |-> <<>>]
    ELSE [threw |-> FALSE, out |-> collectBonuses(args)]

----------------------------------------------------------------------------
(* CharacterSheet.jsx, AbilityScoreInspector and ACInspector *)

\* String.prototype.toUpperCase on the abbreviations used in this model
ToUpperCase(s) ==
    CASE s = "dex" -> "DEX"
      [] s = "Str" -> "STR"
      [] s = "wis" -> "WIS"
      [] s = "lck" -> "LCK"
      [] OTHER -> s

\* parseInt(text, 10) on the texts used in this model; <<>> is NaN
ParseInt(text) ==
    CASE text = "1" -> Some(1)
      [] text = "2" -> Some(2)
      [] text = "-1" -> Some(-1)
      [] text = "2.5" -> Some(2)
      [] text = "0" -> Some(0)
      [] text = "-2" -> Some(-2)
      [] text = "7" -> Some(7)
      [] text = "25" -> Some(25)
      [] text = "-25" -> Some(-25)
      [] OTHER -> None

\* parseInt(text) || 0
ParseIntOrZero(text) == IF ParseInt(text) = None THEN 0 ELSE ParseInt(text)[1]

\* String.prototype.includes(piece) on the texts used in this model
Includes(text, piece) ==
    CASE piece = "." -> text \in {"2.5"}
      [] piece = "-" -> text \in {"-1", "-2", "-25"}
      [] OTHER -> FALSE

abilityAbbrevToLower ==
    [abbr \in {"STR", "DEX", "CON", "INT", "WIS", "CHA"} |->
        CASE abbr = "STR" -> "strength"
          [] abbr = "DEX" -> "dexterity"
          [] abbr = "CON" -> "constitution"
          [] abbr = "INT" -> "intelligence"
          [] abbr = "WIS" -> "wisdom"
          [] OTHER -> "charisma"]

\* a label that joins the source type even when there is none
sourceLabelAlwaysJoined(improvement) == <<improvement.source, " - ", improvement.sourceType>>

\* `${improvement.source}${improvement.sourceType ? ` - ${improvement.sourceType}` : ''}`:
\* the label as the sequence of its pieces
sourceLabel(improvement) ==
    IF improvement.sourceType # ""
    THEN <<improvement.source, " - ", improvement.sourceType>>
    ELSE <<improvement.source>>

\* the bonus of one "ABBR: n" string of an improvement, <<>> when it is
\* skipped; the string is held as [abbr, valueStr]: the trimmed text before
\* the first colon and the slot of the trimmed text after it
ConvertAbilityStr(abilityStr, improvement) ==
    LET abbr == ToUpperCase(abilityStr.abbr)
        value == IF abilityStr.valueStr = None THEN None ELSE ParseInt(abilityStr.valueStr[1])
    IN IF abbr \notin DOMAIN abilityAbbrevToLower \/ value = None THEN <<>>
       ELSE <<[target |-> Some(Dotted("ability", abilityAbbrevToLower[abbr])),
               value |-> value,
               source |-> [label |-> sourceLabel(improvement),
                           type |-> "ability-score-improvement"]]>>

RECURSIVE ConvertAbilityStrs(_, _)
ConvertAbilityStrs(strs, improvement) ==
    IF strs = <<>> THEN <<>>
    ELSE ConvertAbilityStr(Head(strs), improvement) \o ConvertAbilityStrs(Tail(strs), improvement)

\* convertAbilityScoresToBonuses(improvements)
RECURSIVE convertAbilityScoresToBonuses(_)
convertAbilityScoresToBonuses(improvements) ==
    IF improvements = <<>> THEN <<>>
    ELSE ConvertAbilityStrs(Head(improvements).abilities, Head(improvements))
         \o convertAbilityScoresToBonuses(Tail(improvements))

\* getAbilityBonuses(allBonuses, abilityName)
getAbilityBonuses(allBonuses, abilityName) ==
    LET Matches(b) == b.target[1] = Dotted("ability", abilityName)
    IN SelectSeq(allBonuses, Matches)

\* Math.ceil(character.level / 4) + 1
proficiencyBonus(c) == ((c.level + 3) \div 4) + 1

baseAbilities(c) == [a \in Abilities |-> c[a]]

baseMods(c) == [a \in Abilities |-> abilityModifier(baseAbilities(c)[a])]

\* inventory.find(predicate): the slot of the first matching item
\* (I is the set of the matching positions)
FirstWhere(list, I) ==
    IF I = {} THEN None ELSE Some(list[CHOOSE i \in I : \A j \in I : i <= j])

\* calculateBaseAC(inventory, dexModifier); inventory is <<>> when it is not
\* an array. An inventory item holds equipped, shield (the result of
\* isShield), armor (its type names armor or it has an armorTypeId) and
\* armor_class: <<>> or <<[base, dex_bonus, max_bonus]>>.
calculateBaseAC(inventory, dexModifier) ==
    IF inventory = None THEN 10 + dexModifier
    ELSE LET IsBodyArmor(item) == item.equipped /\ ~item.shield /\ item.armor
             IsEquippedShield(item) == item.equipped /\ item.shield
             list == inventory[1]
             equippedArmor == FirstWhere(list, {i \in DOMAIN list : IsBodyArmor(list[i])})
             equippedShield == FirstWhere(list, {i \in DOMAIN list : IsEquippedShield(list[i])})
             armorAC ==
                 IF equippedArmor = None THEN 10 + dexModifier
                 ELSE IF equippedArmor[1].armor_class = None THEN 10 + dexModifier
                 ELSE LET ac == equippedArmor[1].armor_class[1] IN
                      IF ~ac.dex_bonus THEN ac.base
                      ELSE IF ac.max_bonus # None THEN ac.base + Min(dexModifier, ac.max_bonus[1])
                      ELSE ac.base + dexModifier
             shieldAC ==
                 IF equippedShield = None THEN 0
                 ELSE IF equippedShield[1].armor_class = None THEN 0
                 ELSE equippedShield[1].armor_class[1].base
         IN armorAC + shieldAC

\* const bonusList = collectBonuses({ ... }) in the render of CharacterSheet
SheetBonusList(c) ==
    collectBonuses([items |-> c.items, features |-> c.features,
                    baseCharacterData |-> baseAbilities(c), overrides |-> Some(c.bonuses)])

\* const allBonuses = [...bonusList, ...abilityScoreBonuses]
SheetAllBonuses(c) ==
    SheetBonusList(c) \o convertAbilityScoresToBonuses(c.ability_score_improvements)

SheetBaseAC(c) == calculateBaseAC(c.inventory, baseMods(c)["dexterity"])

\* the deriveCharacterStats call of the render
SheetDerive(c) ==
    deriveCharacterStats(
        [abilities |-> Some(baseAbilities(c)),
         maxHP |-> Some(c.max_hp),
         proficiency |-> Some(proficiencyBonus(c)),
         acBase |-> Some(SheetBaseAC(c)),
         initiativeBase |-> Some(baseMods(c)["dexterity"]),
         passivePerceptionBase |-> Some(10 + baseMods(c)["wisdom"]),
         senses |-> c.senses,
         speeds |-> c.speeds],
        AsSlots(SheetAllBonuses(c)))

\* sum of mod.value over a list of custom modifiers
RECURSIVE CustomTotal(_)
CustomTotal(mods) == IF mods = <<>> THEN 0 ELSE Head(mods).value + CustomTotal(Tail(mods))

\* calculateModifier(score)
calculateModifier(score) == (score - 10) \div 2

\* inspectorState.abilityCustomOverrides?.[abilityKey]: <<>> when the key is
\* absent or holds null
StoredOverride(st, abilityKey) ==
    IF abilityKey \in DOMAIN st.abilityCustomOverrides
    THEN st.abilityCustomOverrides[abilityKey] ELSE None

\* inspectorState.abilityCustomModifiers?.[abilityKey] || []
StoredModifiers(st, abilityKey) == GetList(st.abilityCustomModifiers, abilityKey)

\* getFinalAbilityScore(abilityKey, baseScore)
getFinalAbilityScore(st, abilityKey, baseScore) ==
    LET override == StoredOverride(st, abilityKey) IN
    IF override # None THEN override[1]
    ELSE baseScore + CustomTotal(StoredModifiers(st, abilityKey))

\* derivedStats?.abilities?.[key] || character[key]
SheetBaseScore(c, key) ==
    LET derived == SheetDerive(c).derived.abilities[key]
    IN IF derived # 0 THEN derived ELSE c[key]

\* strScore, dexScore, ...: the final score the sheet shows for an ability
SheetFinalScore(c, st, key) == getFinalAbilityScore(st, key, SheetBaseScore(c, key))

\* the modifiers of the engine's scores, computed before overrides and custom
\* modifiers are applied
derivedModsPreOverride(c, st) == [key \in Abilities |-> SheetDerive(c).derived.modifiers[key]]

\* derivedMods: the modifiers the sheet shows and passes to its tabs
derivedMods(c, st) == [key \in Abilities |-> calculateModifier(SheetFinalScore(c, st, key))]

\* const ac = acCustomOverride !== null ? acCustomOverride : derivedStats.ac + customACModifierTotal
SheetAC(c, acMods, acOverride) ==
    IF acOverride # None THEN acOverride[1]
    ELSE SheetDerive(c).derived.ac + CustomTotal(acMods)

\* const initiative = derivedStats.initiative
SheetInitiative(c) == SheetDerive(c).derived.initiative

\* passiveSkillValue('Perception', wisMod) for a character without
\* proficiency or passive advantage in Perception
SheetPassivePerception(c, st) == 10 + derivedMods(c, st)["wisdom"]

\* value || null for a stored override: 0, null and undefined all give null
OrNull(slot) == IF slot # None /\ slot[1] # 0 THEN slot ELSE None

\* the props CharacterSheet passes to AbilityScoreInspector
AbilityInspectorProps(st) ==
    LET selected == st.selectedAbility
        key == selected[1].key
    IN [ability |-> IF selected = None THEN "" ELSE selected[1].name,
        baseValue |-> IF selected = None \/ selected[1].baseValue = 0
                      THEN 10 ELSE selected[1].baseValue,
        bonuses |-> IF selected = None THEN <<>> ELSE selected[1].bonuses,
        customModifiers |-> IF selected = None THEN <<>> ELSE StoredModifiers(st, key),
        customOverride |-> IF selected = None THEN None ELSE OrNull(StoredOverride(st, key))]

\* bonuses.reduce((sum, bonus) => sum + bonus.value, 0)
RECURSIVE BonusTotal(_)
BonusTotal(list) == IF list = <<>> THEN 0 ELSE Head(list).value[1] + BonusTotal(Tail(list))

\* calculatedValue of AbilityScoreInspector and of ACInspector
InspectorCalculatedValue(props) ==
    LET bonusTotal == BonusTotal(props.bonuses)
        customModifierTotal == CustomTotal(props.customModifiers)
    IN IF props.customOverride # None THEN props.customOverride[1]
       ELSE props.baseValue + bonusTotal + customModifierTotal

\* the "Total" row of the ability-score inspector
AbilityInspectorTotal(st) == InspectorCalculatedValue(AbilityInspectorProps(st))

\* the props CharacterSheet passes to ACInspector
ACInspectorProps(c, acMods, acOverride) ==
    LET IsAc(b) == b.target[1] = Plain("ac")
    IN [baseValue |-> SheetBaseAC(c),
        bonuses |-> SelectSeq(SheetAllBonuses(c), IsAc),
        customModifiers |-> acMods,
        customOverride |-> acOverride,
        dexModifier |-> baseMods(c)["dexterity"]]

ACInspectorTotal(c, acMods, acOverride) ==
    InspectorCalculatedValue(ACInspectorProps(c, acMods, acOverride))

\* JSON.stringify of the stored maps and lists: the text of a value
JSONStringify(value) == [json |-> value]

\* String(value) for an integer
NumberText(value) == [number |-> value]

StorageKey(name, id) == <<name, id>>

\* localStorage.setItem(key, text)
SetItem(store, key, text) == [k \in DOMAIN store \cup {key} |-> IF k = key THEN text ELSE store[k]]

\* localStorage.removeItem(key)
RemoveItem(store, key) == [k \in DOMAIN store \ {key} |-> store[k]]

\* JSON.parse of a text JSON.stringify wrote
JSONParse(text) == text.json

\* parseInt(text, 10) of a text String(value) wrote
ParseNumberText(text) == text.number

\* const saved = localStorage.getItem(key); if (saved) { set(JSON.parse(saved)) }:
\* the state after the load effect, which sets nothing without a stored text
LoadedOrKept(store, key, current) ==
    IF key \in DOMAIN store THEN JSONParse(store[key]) ELSE current

----------------------------------------------------------------------------
(* Inputs of the derivation runs *)

MaxBonuses == 2

BonusValues == {-1, 1, 3}

BonusTargets ==
    {Dotted("ability", "strength"), Dotted("ability", "luck"),
     Plain("maxHP"), Plain("ac"), Plain("initiative"), Plain("passivePerception"),
     Dotted("skill", "history"), Dotted("save", "wisdom"),
     Dotted("speed", "walk"), Dotted("speed", "Fly"),
     Dotted("sense", "darkvision"), Dotted("sense", "Darkvision"),
     Plain("damage")}

ItemSource == [type |-> "item", id |-> "i1", label |-> "Ring"]

MakeBonus(target, value) ==
    [target |-> Some(target), value |-> Some(value), type |-> "untyped", source |-> ItemSource]

DeriveBonuses == {MakeBonus(t, v) : t \in BonusTargets, v \in BonusValues}

BaseFull ==
    [abilities |-> Some([a \in Abilities |->
                           CASE a = "strength" -> 8
                             [] a = "dexterity" -> 14
                             [] a = "wisdom" -> 12
                             [] a = "charisma" -> 16
                             [] OTHER -> 10]),
     maxHP |-> Some(8), proficiency |-> Some(2), acBase |-> Some(12),
     initiativeBase |-> Some(2), passivePerceptionBase |-> Some(11),
     senses |-> <<[sense_type |-> "darkvision", range |-> 2]>>,
     speeds |-> [k \in {"walk"} |-> 30]]

\* a base object without any of the optional fields
BaseEmpty ==
    [abilities |-> None, maxHP |-> None, proficiency |-> None, acBase |-> None,
     initiativeBase |-> None, passivePerceptionBase |-> None,
     senses |-> <<>>, speeds |-> EmptyMap]

\* low strength, an ability map without charisma, a duplicated sense type, a
\* capitalised sense type and speed type, and a speed type no bonus names
BaseLow ==
    [abilities |-> Some([a \in Abilities \ {"charisma"} |-> IF a = "strength" THEN 4 ELSE 11]),
     maxHP |-> Some(5), proficiency |-> Some(3), acBase |-> Some(10),
     initiativeBase |-> Some(0), passivePerceptionBase |-> Some(10),
     senses |-> <<[sense_type |-> "darkvision", range |-> 1],
                  [sense_type |-> "Darkvision", range |-> 2],
                  [sense_type |-> "darkvision", range |-> 2]>>,
     speeds |-> [k \in {"Fly", "swim"} |-> IF k = "Fly" THEN 25 ELSE 15]]

BaseChoices == {BaseFull, BaseEmpty, BaseLow}

----------------------------------------------------------------------------
(* Derivation runs: a caller prepares a bonus list and calls deriveCharacterStats *)

\* the state of the part of the program a run does not use
IdleCollect ==
    /\ benefitHandlers = BuiltinHandlers
    /\ baseCharacterData = EmptyMap
    /\ items = <<>>
    /\ features = <<>>
    /\ overrides = <<>>
    /\ collected = None
    /\ prevCollected = None

\* the HP state as useState creates it
IdleHP ==
    /\ currentHP = None
    /\ tempHP = 0
    /\ maxHPModifier = 0
    /\ isHPModalOpen = FALSE
    /\ damageInput = ""

\* the hook as useState creates it, with no query started
IdleHook ==
    /\ selectedCharacterId = ""
    /\ hookCharacter = None
    /\ relatedLoading = FALSE
    /\ error = ""
    /\ requests = <<>>

\* no character is loaded: the sheet renders nothing
IdleSheet ==
    /\ character = None
    /\ inspectorState = [isOpen |-> FALSE, selectedAbility |-> None,
                         abilityCustomModifiers |-> EmptyMap,
                         abilityCustomOverrides |-> EmptyMap]
    /\ acInspectorOpen = FALSE
    /\ acCustomModifiers = <<>>
    /\ acCustomOverride = None
    /\ localStorage = EmptyMap
    /\ IdleHP
    /\ IdleHook

InitDerive ==
    /\ base \in BaseChoices
    /\ bonuses = <<>>
    /\ derivedStats = None
    /\ IdleCollect
    /\ IdleSheet

\* the caller appends one more bonus to the list it will pass
PushDeriveBonus ==
    /\ derivedStats = None
    /\ Len(bonuses) < MaxBonuses
    /\ \E b \in DeriveBonuses : bonuses' = Append(bonuses, Some(b))
    /\ UNCHANGED <<base, derivedStats, collectVars, sheetVars>>

\* deriveCharacterStats({ base, bonuses })
CallDerive ==
    /\ derivedStats = None
    /\ derivedStats' = Some([base |-> base, bonuses |-> bonuses,
                             threw |-> deriveOutcome(base, bonuses).threw,
                             out |-> deriveOutcome(base, bonuses).out])
    /\ UNCHANGED <<base, bonuses, collectVars, sheetVars>>

NextDerive == PushDeriveBonus \/ CallDerive

SpecDerive == InitDerive /\ [][NextDerive]_vars

----------------------------------------------------------------------------
(* Inputs of the collection runs *)

MaxEntries == 2
MaxOverrides == 1

RawBonus(target, value) ==
    [target |-> Some(target), value |-> Some(value), type |-> "", source |-> None]

NoBenefitFields ==
    [type |-> "", skills |-> None, abilities |-> None, saves |-> None,
     bonus_source |-> None, value |-> None, bonus_type |-> ""]

SkillBenefit(skills, ref) ==
    [NoBenefitFields EXCEPT !.type = "skill_modifier_bonus",
                            !.skills = Some(skills), !.bonus_source = Some(ref)]

AbilityBenefit(abilities, ref) ==
    [NoBenefitFields EXCEPT !.type = "ability_modifier_bonus",
                            !.abilities = Some(abilities), !.bonus_source = Some(ref)]

AcBenefit(value) == [NoBenefitFields EXCEPT !.type = "ac_bonus", !.value = Some(value)]

NoEntryFields ==
    [id |-> "", name |-> "", label |-> "", title |-> "",
     bonuses |-> None, bonus |-> None, benefits |-> None]

\* the feature of the "Scholar of Yore" scenario
ScholarOfYore ==
    [NoEntryFields EXCEPT !.id = "e1", !.name = "Scholar of Yore",
        !.benefits = Some(<<Some(SkillBenefit(<<"religion", "history">>,
                                              <<"charisma", "modifier">>))>>)]

\* an entry whose legacy bonus raises the derived charisma
Headband ==
    [NoEntryFields EXCEPT !.id = "e2", !.name = "Headband",
        !.bonuses = Some(<<Some(RawBonus(Dotted("ability", "charisma"), 2))>>)]

\* an entry without a name whose benefit lists the same skill twice
Lore ==
    [NoEntryFields EXCEPT !.id = "e3", !.label = "Lore",
        !.benefits = Some(<<Some(SkillBenefit(<<"arcana", "arcana">>,
                                              <<"wisdom", "modifier", "doubled">>))>>)]

\* an entry whose benefits raise the derived charisma and the armor class
Aura ==
    [NoEntryFields EXCEPT !.id = "e4", !.name = "Aura",
        !.bonus = Some(RawBonus(Dotted("skill", "history"), 1)),
        !.benefits = Some(<<Some(AbilityBenefit(<<"charisma">>, <<"proficiency", "bonus">>)),
                            Some(AcBenefit(1))>>)]

CollectEntries == {ScholarOfYore, Headband, Lore, Aura}

CollectOverrides == {RawBonus(Dotted("ability", "charisma"), 3), RawBonus(Plain("ac"), -1)}

DataScholar ==
    [k \in {"charisma", "intelligence", "wisdom"} |->
        CASE k = "charisma" -> 16 [] k = "intelligence" -> 14 [] OTHER -> 12]

DataAlt ==
    [k \in {"charisma", "wisdom", "proficiency"} |->
        CASE k = "charisma" -> 8 [] k = "wisdom" -> 15 [] OTHER -> 3]

\* scores present whose modifier is 0
DataFlat == [k \in {"charisma", "wisdom"} |-> IF k = "charisma" THEN 11 ELSE 10]

CollectData == {DataScholar, DataAlt, DataFlat, EmptyMap}

----------------------------------------------------------------------------
(* Collection runs: a caller prepares items, features and overrides, calls
   collectBonuses and passes the result to deriveCharacterStats *)

InitCollect ==
    /\ base = BaseFull
    /\ bonuses = <<>>
    /\ derivedStats = None
    /\ benefitHandlers = BuiltinHandlers
    /\ baseCharacterData \in CollectData
    /\ items = <<>>
    /\ features = <<>>
    /\ overrides = <<>>
    /\ collected = None
    /\ prevCollected = None
    /\ IdleSheet

EntriesIn(list) == {list[i][1] : i \in DOMAIN list}

\* an entry not yet listed, while there is room for one more
FreshEntries ==
    IF Len(items) + Len(features) < MaxEntries
    THEN CollectEntries \ (EntriesIn(items) \cup EntriesIn(features))
    ELSE {}

\* the caller lists one more item, at the end or at the front
AddItem ==
    /\ \E e \in FreshEntries :
          \/ items' = Append(items, Some(e))
          \/ items' = <<Some(e)>> \o items
    /\ UNCHANGED <<deriveVars, benefitHandlers, baseCharacterData, features, overrides,
                   collected, prevCollected, sheetVars>>

\* the caller lists one more feature, at the end or at the front
AddFeature ==
    /\ \E e \in FreshEntries :
          \/ features' = Append(features, Some(e))
          \/ features' = <<Some(e)>> \o features
    /\ UNCHANGED <<deriveVars, benefitHandlers, baseCharacterData, items, overrides,
                   collected, prevCollected, sheetVars>>

\* the caller lists one more manual bonus
AddOverride ==
    /\ Len(overrides) < MaxOverrides
    /\ \E o \in CollectOverrides : overrides' = Append(overrides, Some(o))
    /\ UNCHANGED <<deriveVars, benefitHandlers, baseCharacterData, items, features,
                   collected, prevCollected, sheetVars>>

CollectArgs ==
    [items |-> items, features |-> features, baseCharacterData |-> baseCharacterData,
     overrides |-> Some(overrides)]

\* collectBonuses({ items, features, baseCharacterData, overrides })
CallCollect ==
    /\ derivedStats = None
    /\ collected' = Some([args |-> CollectArgs, handlers |-> benefitHandlers,
                          threw |-> collectOutcome(CollectArgs).threw,
                          out |-> collectOutcome(CollectArgs).out])
    /\ prevCollected' = collected
    /\ UNCHANGED <<deriveVars, benefitHandlers, baseCharacterData, items, features, overrides,
                   sheetVars>>

\* deriveCharacterStats({ base, bonuses: collected })
CallDeriveCollected ==
    /\ collected # None
    /\ ~collected[1].threw
    /\ derivedStats = None
    /\ bonuses' = AsSlots(collected[1].out)
    /\ derivedStats' = Some([base |-> base, bonuses |-> bonuses',
                             threw |-> deriveOutcome(base, bonuses').threw,
                             out |-> deriveOutcome(base, bonuses').out])
    /\ UNCHANGED <<base, collectVars, sheetVars>>

\* the orderings of a list
Orderings(list) ==
    {[i \in DOMAIN list |-> list[p[i]]] :
        p \in {q \in [DOMAIN list -> DOMAIN list] : \A i, j \in DOMAIN list : q[i] = q[j] => i = j}}

\* the caller reorders the lists it passes
Reorder ==
    /\ derivedStats = None
    /\ items' \in Orderings(items)
    /\ features' \in Orderings(features)
    /\ overrides' \in Orderings(overrides)
    /\ <<items', features', overrides'>> # <<items, features, overrides>>
    /\ UNCHANGED <<deriveVars, benefitHandlers, baseCharacterData, collected, prevCollected,
                   sheetVars>>

NextCollect ==
    AddItem \/ AddFeature \/ AddOverride \/ Reorder \/ CallCollect \/ CallDeriveCollected

SpecCollect == InitCollect /\ [][NextCollect]_vars

----------------------------------------------------------------------------
(* Runs with a changing registry: a caller lists features, registers
   handlers, calls collectBonuses any number of times and passes the last
   result to deriveCharacterStats *)

\* a feature whose benefit is of a type no built-in handler knows
Homebrew ==
    [NoEntryFields EXCEPT !.id = "e5", !.name = "Homebrew",
        !.benefits = Some(<<Some([AcBenefit(2) EXCEPT !.type = "custom_bonus"])>>)]

RegistryEntries == {ScholarOfYore, Aura, Homebrew}

\* the types a caller registers a handler for, and the handler functions it
\* registers (one that returns no bonus, and the flat armor-class handler)
RegisteredTypes == {"skill_modifier_bonus", "custom_bonus"}
RegisteredHandlers == {"skill_proficiency", "ac_bonus"}

InitRegistry ==
    /\ base = BaseFull
    /\ bonuses = <<>>
    /\ derivedStats = None
    /\ benefitHandlers = BuiltinHandlers
    /\ baseCharacterData = DataScholar
    /\ items = <<>>
    /\ features = <<>>
    /\ overrides = <<>>
    /\ collected = None
    /\ prevCollected = None
    /\ IdleSheet

\* the caller lists one more feature
AddRegistryFeature ==
    /\ Len(features) < MaxEntries
    /\ \E e \in RegistryEntries \ EntriesIn(features) : features' = Append(features, Some(e))
    /\ UNCHANGED <<deriveVars, benefitHandlers, baseCharacterData, items, overrides,
                   collected, prevCollected, sheetVars>>

\* registerBenefitHandler(type, handler)
RegisterBenefitHandler ==
    /\ \E type \in RegisteredTypes, handler \in RegisteredHandlers :
          benefitHandlers' = Put(benefitHandlers, type, handler)
    /\ UNCHANGED <<deriveVars, baseCharacterData, items, features, overrides,
                   collected, prevCollected, sheetVars>>

NextRegistry ==
    AddRegistryFeature \/ RegisterBenefitHandler \/ CallCollect \/ CallDeriveCollected

SpecRegistry == InitRegistry /\ [][NextRegistry]_vars

----------------------------------------------------------------------------
(* Runs over modifier references: a caller lists features whose benefit names
   a bonus_source, calls collectBonuses and passes the result on *)

\* bonus_source values: missing or not a string (<<>>), the empty string, the
\* two documented grammars, and strings outside them (every word non-empty)
ReferenceSlots ==
    {None, Some(<<>>),
     Some(<<"proficiency", "bonus">>),
     Some(<<"charisma", "modifier">>),
     Some(<<"charisma", "modifier", "doubled">>),
     Some(<<"wisdom", "modifier", "halved">>),
     Some(<<"charisma", "modifier", "tripled">>),
     Some(<<"charisma", "modifier", "doubled", "halved">>),
     Some(<<"proficiency", "modifier">>),
     Some(<<"luck", "modifier">>),
     Some(<<"charisma", "bonus">>),
     Some(<<"charisma">>)}

ReferenceData == {DataScholar, DataAlt}

\* the n-th listed feature: one skill benefit with the given bonus_source
ReferenceFeature(n, ref) ==
    [NoEntryFields EXCEPT !.id = IF n = 1 THEN "r1" ELSE IF n = 2 THEN "r2" ELSE "r3",
        !.name = "Reference",
        !.benefits = Some(<<Some([SkillBenefit(<<"history">>, <<>>) EXCEPT !.bonus_source = ref])>>)]

InitReference ==
    /\ base = BaseFull
    /\ bonuses = <<>>
    /\ derivedStats = None
    /\ benefitHandlers = BuiltinHandlers
    /\ baseCharacterData \in ReferenceData
    /\ items = <<>>
    /\ features = <<>>
    /\ overrides = <<>>
    /\ collected = None
    /\ prevCollected = None
    /\ IdleSheet

\* the caller lists one more feature
ListReferenceFeature ==
    /\ Len(features) < MaxEntries
    /\ collected = None
    /\ \E ref \in ReferenceSlots :
          features' = Append(features, Some(ReferenceFeature(Len(features) + 1, ref)))
    /\ UNCHANGED <<deriveVars, benefitHandlers, baseCharacterData, items, overrides,
                   collected, prevCollected, sheetVars>>

NextReference == ListReferenceFeature \/ CallCollect \/ CallDeriveCollected

SpecReference == InitReference /\ [][NextReference]_vars

----------------------------------------------------------------------------
(* Inputs of the runs with malformed data *)

\* raw bonuses the normalizer rejects, and one that carries its own source
NoTargetBonus == [target |-> None, value |-> Some(4), type |-> "", source |-> None]
NoValueBonus == [target |-> Some(Plain("ac")), value |-> None, type |-> "", source |-> None]
SourcedBonus ==
    [target |-> Some(Plain("ac")), value |-> Some(1), type |-> "enhancement",
     source |-> Some([label |-> "Raw"])]

TypedBenefit(type) == [NoBenefitFields EXCEPT !.type = type]

\* a title only; a bonuses array with a null element, two rejected bonuses,
\* a bonus with its own source and a bonus on an unknown target; the single
\* `bonus` beside the array is never read
Relic ==
    [NoEntryFields EXCEPT !.id = "m1", !.title = "Relic",
        !.bonuses = Some(<<None, Some(NoTargetBonus), Some(NoValueBonus),
                           Some(SourcedBonus), Some(RawBonus(Plain("damage"), 2))>>),
        !.bonus = Some(RawBonus(Plain("maxHP"), 9))]

\* no name, label or title; a benefits array with a null element, a benefit
\* without type, a benefit of a type nobody registered and benefits whose
\* type names an inherited member that does not raise
Nameless ==
    [NoEntryFields EXCEPT !.id = "m2",
        !.bonus = Some(RawBonus(Dotted("skill", "stealth"), 2)),
        !.benefits = Some(<<None, Some(NoBenefitFields), Some(TypedBenefit("mystery")),
                            Some(AcBenefit(2)), Some(TypedBenefit("toString")),
                            Some([AcBenefit(5) EXCEPT !.type = "constructor"])>>)]

\* an entry without bonuses, bonus or benefits
Bare == [NoEntryFields EXCEPT !.id = "m3", !.name = "Bare"]

\* a benefit whose type is "__proto__"
Cursed ==
    [NoEntryFields EXCEPT !.id = "m4", !.name = "Cursed", !.label = "Hex",
        !.bonuses = Some(<<Some(RawBonus(Plain("initiative"), 1))>>),
        !.benefits = Some(<<Some(TypedBenefit("__proto__"))>>)]

\* a label and a title; a bonus on the ability "toString"
Glitch ==
    [NoEntryFields EXCEPT !.id = "m5", !.label = "Glitch", !.title = "Old",
        !.bonuses = Some(<<Some(RawBonus(Dotted("ability", "toString"), 1))>>)]

MalformedEntrySlots == {None, Some(Relic), Some(Nameless), Some(Bare), Some(Cursed), Some(Glitch)}

MalformedOverrideSlots ==
    {None, Some(NoTargetBonus), Some(SourcedBonus), Some(RawBonus(Plain("damage"), 2))}

\* elements of a bonus list handed to deriveCharacterStats directly
MalformedBonusSlots ==
    {None,
     Some([MakeBonus(Plain("ac"), 1) EXCEPT !.target = None]),
     Some(MakeBonus(Plain("damage"), 3)),
     Some(MakeBonus(Plain("AC"), 3)),
     Some(MakeBonus(Dotted("ability", "luck"), 3)),
     Some(MakeBonus(Dotted("ability", "constructor"), 3)),
     Some(MakeBonus(Dotted("ability", "strength"), 1)),
     Some(MakeBonus(Dotted("skill", "history"), 1)),
     Some(MakeBonus(Plain("ac"), 1))}

----------------------------------------------------------------------------
(* Runs of the dispatch: a caller lists features, registers handlers of its
   own or built-in ones under a type, and calls collectBonuses *)

\* the homebrew feature (a type that is not built in), the scholar feature (a
\* built-in type) and the cursed entry (a raw bonus beside a benefit whose
\* type is neither registered nor built in)
DispatchEntries == {Homebrew, ScholarOfYore, Cursed}

DispatchedTypes == {"skill_modifier_bonus", "custom_bonus"}
DispatchedHandlers == {"ac_bonus", "caller_handler"}

InitDispatch ==
    /\ base = BaseFull
    /\ bonuses = <<>>
    /\ derivedStats = None
    /\ benefitHandlers = BuiltinHandlers
    /\ baseCharacterData = DataScholar
    /\ items = <<>>
    /\ features = <<>>
    /\ overrides = <<>>
    /\ collected = None
    /\ prevCollected = None
    /\ IdleSheet

\* the caller lists one more feature
AddDispatchFeature ==
    /\ Len(features) < MaxEntries
    /\ \E e \in DispatchEntries \ EntriesIn(features) : features' = Append(features, Some(e))
    /\ UNCHANGED <<deriveVars, benefitHandlers, baseCharacterData, items, overrides,
                   collected, prevCollected, sheetVars>>

\* registerBenefitHandler(type, handler) with a handler of the caller or a
\* built-in one
RegisterDispatchHandler ==
    /\ \E type \in DispatchedTypes, handler \in DispatchedHandlers :
          benefitHandlers' = Put(benefitHandlers, type, handler)
    /\ UNCHANGED <<deriveVars, baseCharacterData, items, features, overrides,
                   collected, prevCollected, sheetVars>>

NextDispatch ==
    AddDispatchFeature \/ RegisterDispatchHandler \/ CallCollect \/ CallDeriveCollected

SpecDispatch == InitDispatch /\ [][NextDispatch]_vars

----------------------------------------------------------------------------
(* Runs with malformed data: a caller either lists entries and manual bonuses,
   calls collectBonuses and passes the result on, or hands a bonus list to
   deriveCharacterStats directly *)

InitMalformed ==
    /\ base = BaseFull
    /\ bonuses = <<>>
    /\ derivedStats = None
    /\ benefitHandlers = BuiltinHandlers
    /\ baseCharacterData = DataScholar
    /\ items = <<>>
    /\ features = <<>>
    /\ overrides = <<>>
    /\ collected = None
    /\ prevCollected = None
    /\ IdleSheet

\* the slots a caller may list next: null any number of times, an entry once
ListableSlots ==
    IF Len(items) + Len(features) < MaxEntries /\ collected = None /\ bonuses = <<>>
    THEN {slot \in MalformedEntrySlots :
             \/ slot = None
             \/ /\ \A i \in DOMAIN items : items[i] # slot
                /\ \A i \in DOMAIN features : features[i] # slot}
    ELSE {}

ListMalformedItem ==
    /\ \E slot \in ListableSlots : items' = Append(items, slot)
    /\ UNCHANGED <<deriveVars, benefitHandlers, baseCharacterData, features, overrides,
                   collected, prevCollected, sheetVars>>

ListMalformedFeature ==
    /\ \E slot \in ListableSlots : features' = Append(features, slot)
    /\ UNCHANGED <<deriveVars, benefitHandlers, baseCharacterData, items, overrides,
                   collected, prevCollected, sheetVars>>

ListMalformedOverride ==
    /\ collected = None
    /\ bonuses = <<>>
    /\ Len(overrides) < MaxOverrides
    /\ \E slot \in MalformedOverrideSlots : overrides' = Append(overrides, slot)
    /\ UNCHANGED <<deriveVars, benefitHandlers, baseCharacterData, items, features,
                   collected, prevCollected, sheetVars>>

\* the caller appends one more element to the list it will pass directly
PushMalformedBonus ==
    /\ collected = None
    /\ items = <<>> /\ features = <<>> /\ overrides = <<>>
    /\ derivedStats = None
    /\ Len(bonuses) < MaxBonuses
    /\ \E slot \in MalformedBonusSlots : bonuses' = Append(bonuses, slot)
    /\ UNCHANGED <<base, derivedStats, collectVars, sheetVars>>

NextMalformed ==
    \/ ListMalformedItem
    \/ ListMalformedFeature
    \/ ListMalformedOverride
    \/ PushMalformedBonus
    \/ CallCollect
    \/ CallDeriveCollected
    \/ CallDerive

SpecMalformed == InitMalformed /\ [][NextMalformed]_vars

----------------------------------------------------------------------------
(* Inputs of the character-sheet runs *)

MaxCustomMods == 1

\* the values a user enters for a custom modifier and for an override
CustomValues == {-1}
OverrideValues == {0, 18}

\* the abilities whose inspector the user opens in these runs
EditedAbilities == {"dexterity", "wisdom"}

Belt ==
    [NoEntryFields EXCEPT !.id = "i1", !.name = "Belt",
        !.bonuses = Some(<<Some(RawBonus(Dotted("ability", "wisdom"), 2))>>),
        !.benefits = Some(<<Some(AcBenefit(1))>>)]

Boots ==
    [NoEntryFields EXCEPT !.id = "i2", !.name = "Boots",
        !.bonuses = Some(<<Some(RawBonus(Plain("initiative"), 1))>>)]

ScaleMail ==
    [equipped |-> TRUE, shield |-> FALSE, armor |-> TRUE,
     armor_class |-> Some([base |-> 14, dex_bonus |-> TRUE, max_bonus |-> Some(2)])]

Shield ==
    [equipped |-> TRUE, shield |-> TRUE, armor |-> TRUE,
     armor_class |-> Some([base |-> 2, dex_bonus |-> FALSE, max_bonus |-> None])]

\* an unarmored character with an item, a feature and one improvement
Aria ==
    [id |-> "c1", level |-> 5, max_hp |-> 20,
     strength |-> 10, dexterity |-> 14, constitution |-> 10,
     intelligence |-> 10, wisdom |-> 12, charisma |-> 16,
     inventory |-> None,
     items |-> <<Some(Belt)>>, features |-> <<Some(ScholarOfYore)>>, bonuses |-> <<>>,
     ability_score_improvements |->
         <<[source |-> "Level 4", sourceType |-> "ASI",
            abilities |-> <<[abbr |-> "CHA", valueStr |-> Some("1")]>>]>>,
     senses |-> <<[sense_type |-> "darkvision", range |-> 60]>>,
     speeds |-> [k \in {"walk"} |-> 30]]

\* a character in medium armor with a shield and a manual ac penalty
Borin ==
    [id |-> "c2", level |-> 9, max_hp |-> 50,
     strength |-> 16, dexterity |-> 9, constitution |-> 14,
     intelligence |-> 8, wisdom |-> 10, charisma |-> 10,
     inventory |-> Some(<<ScaleMail, Shield>>),
     items |-> <<Some(Boots)>>, features |-> <<>>,
     bonuses |-> <<Some(RawBonus(Plain("ac"), -1))>>,
     ability_score_improvements |->
         <<[source |-> "Feat", sourceType |-> "",
            abilities |-> <<[abbr |-> "Str", valueStr |-> Some("2")],
                            [abbr |-> "LCK", valueStr |-> Some("1")]>>]>>,
     senses |-> <<>>,
     speeds |-> [k \in {"walk"} |-> 25]]

Characters == {Aria, Borin}

----------------------------------------------------------------------------
(* Renders of the sheet: the sheet is handed a character and its render calls
   collectBonuses and deriveCharacterStats *)

MaxLevel == 20

\* the feature lists of the rendered characters; the aura's ability benefit
\* names the bonus_source "proficiency_bonus"
RenderedFeatures == {<<Some(Aura)>>, <<Some(ScholarOfYore)>>, <<Some(Aura), Some(ScholarOfYore)>>}

MaxAbilityStrs == 2

\* "ABBR: n" strings of an improvement, each held as the trimmed text before
\* the first colon and the slot of the trimmed text after it: "CHA: 2",
\* "dex: -1", "Str: 2.5", "wis: 0", "LCK: 1", "lck: 2", "WIS" and "STR: abc"
AbilityStrs ==
    {[abbr |-> "CHA", valueStr |-> Some("2")],
     [abbr |-> "dex", valueStr |-> Some("-1")],
     [abbr |-> "Str", valueStr |-> Some("2.5")],
     [abbr |-> "wis", valueStr |-> Some("0")],
     [abbr |-> "LCK", valueStr |-> Some("1")],
     [abbr |-> "lck", valueStr |-> Some("2")],
     [abbr |-> "WIS", valueStr |-> None],
     [abbr |-> "STR", valueStr |-> Some("abc")]}

AbilityStrLists ==
    UNION {[1..n -> AbilityStrs] : n \in 0..MaxAbilityStrs}

\* an improvement with and without a source type, after one without strings
RenderedImprovements ==
    {<<[source |-> "Background", sourceType |-> "", abilities |-> <<>>],
       [source |-> "Feat", sourceType |-> t, abilities |-> strs]>> :
        t \in {"", "ASI"}, strs \in AbilityStrLists}

RenderedCharacters ==
    {[c EXCEPT !.level = l, !.features = fs] :
        c \in Characters, l \in 1..MaxLevel, fs \in RenderedFeatures}
    \cup {[Aria EXCEPT !.ability_score_improvements = improvements] :
             improvements \in RenderedImprovements}

\* the arguments of the collectBonuses call of the render
SheetCollectArgs(c) ==
    [items |-> c.items, features |-> c.features,
     baseCharacterData |-> baseAbilities(c), overrides |-> Some(c.bonuses)]

\* the base argument of the deriveCharacterStats call of the render
SheetDeriveBase(c) ==
    [abilities |-> Some(baseAbilities(c)),
     maxHP |-> Some(c.max_hp),
     proficiency |-> Some(proficiencyBonus(c)),
     acBase |-> Some(SheetBaseAC(c)),
     initiativeBase |-> Some(baseMods(c)["dexterity"]),
     passivePerceptionBase |-> Some(10 + baseMods(c)["wisdom"]),
     senses |-> c.senses,
     speeds |-> c.speeds]

InitRender ==
    /\ base = BaseEmpty
    /\ bonuses = <<>>
    /\ derivedStats = None
    /\ IdleCollect
    /\ IdleSheet

\* CharacterSheet is rendered with a character: the body of the component up
\* to the deriveCharacterStats call
RenderSheet ==
    /\ character = None
    /\ \E c \in RenderedCharacters :
          /\ character' = Some(c)
          /\ collected' = Some([args |-> SheetCollectArgs(c), handlers |-> benefitHandlers,
                                threw |-> collectOutcome(SheetCollectArgs(c)).threw,
                                out |-> collectOutcome(SheetCollectArgs(c)).out])
          /\ base' = SheetDeriveBase(c)
          /\ bonuses' = AsSlots(SheetAllBonuses(c))
          /\ derivedStats' = Some([base |-> base', bonuses |-> bonuses',
                                   threw |-> deriveOutcome(base', bonuses').threw,
                                   out |-> deriveOutcome(base', bonuses').out])
    /\ UNCHANGED <<hpVars, hookVars, benefitHandlers, baseCharacterData, items, features,
                   overrides, prevCollected,
                   inspectorState, acInspectorOpen, acCustomModifiers, acCustomOverride,
                   localStorage>>

NextRender == RenderSheet

SpecRender == InitRender /\ [][NextRender]_vars

----------------------------------------------------------------------------
(* Character-sheet runs: the user opens the inspectors and edits custom
   modifiers and overrides; every displayed value is a function of the state *)

InitSheet ==
    /\ base = BaseEmpty
    /\ bonuses = <<>>
    /\ derivedStats = None
    /\ IdleCollect
    /\ character \in {Some(c) : c \in Characters}
    /\ inspectorState = [isOpen |-> FALSE, selectedAbility |-> None,
                         abilityCustomModifiers |-> EmptyMap,
                         abilityCustomOverrides |-> EmptyMap]
    /\ acInspectorOpen = FALSE
    /\ acCustomModifiers = <<>>
    /\ acCustomOverride = None
    /\ localStorage = EmptyMap
    /\ IdleHP
    /\ IdleHook

\* the name AbilitiesTab shows for an ability key
AbilityDisplayName(key) ==
    CASE key = "strength" -> "Strength"
      [] key = "dexterity" -> "Dexterity"
      [] key = "constitution" -> "Constitution"
      [] key = "intelligence" -> "Intelligence"
      [] key = "wisdom" -> "Wisdom"
      [] OTHER -> "Charisma"

\* handleAbilityClick(ability) in AbilitiesTab
HandleAbilityClick ==
    /\ character # None
    /\ ~inspectorState.isOpen
    /\ ~acInspectorOpen
    /\ \E abilityKey \in EditedAbilities :
          LET c == character[1]
              baseValue == baseAbilities(c)[abilityKey]
          IN inspectorState' =
                [inspectorState EXCEPT
                    !.isOpen = TRUE,
                    !.selectedAbility =
                        Some([name |-> AbilityDisplayName(abilityKey),
                              key |-> abilityKey,
                              baseValue |-> IF baseValue # 0 THEN baseValue ELSE 10,
                              totalValue |-> SheetFinalScore(c, inspectorState, abilityKey),
                              bonuses |-> getAbilityBonuses(SheetAllBonuses(c), abilityKey)])]
    /\ UNCHANGED <<deriveVars, collectVars, hpVars, hookVars,
                   character, acInspectorOpen, acCustomModifiers,
                   acCustomOverride, localStorage>>

\* onClose of AbilityScoreInspector
CloseAbilityInspector ==
    /\ inspectorState.isOpen
    /\ inspectorState' = [inspectorState EXCEPT !.isOpen = FALSE]
    /\ UNCHANGED <<deriveVars, collectVars, hpVars, hookVars,
                   character, acInspectorOpen, acCustomModifiers,
                   acCustomOverride, localStorage>>

\* the effect of an ability edit: the new state and, with a character id,
\* the stored copy
StoreAbilityEdit(field, name, updated) ==
    /\ inspectorState' = [inspectorState EXCEPT ![field] = updated]
    /\ localStorage' = SetItem(localStorage, StorageKey(name, character[1].id),
                               JSONStringify(updated))
    /\ UNCHANGED <<deriveVars, collectVars, hpVars, hookVars,
                   character, acInspectorOpen, acCustomModifiers,
                   acCustomOverride>>

\* handleAddModifier of AbilityScoreInspector, then onAddCustomModifier
AbilityAddCustomModifier ==
    /\ character # None
    /\ inspectorState.isOpen
    /\ LET abilityKey == inspectorState.selectedAbility[1].key
           current == StoredModifiers(inspectorState, abilityKey)
       IN /\ Len(current) < MaxCustomMods
          /\ \E value \in CustomValues :
                StoreAbilityEdit("abilityCustomModifiers", "ast_ability_modifiers",
                    Put(inspectorState.abilityCustomModifiers, abilityKey,
                        Append(current, [source |-> "Custom", value |-> value])))

\* list.filter((_, i) => i !== index), index counted from 0
RemoveAt(list, index) ==
    [i \in 1..(Len(list) - 1) |-> IF i <= index THEN list[i] ELSE list[i + 1]]

\* onDeleteCustomModifier(index) of the ability inspector
AbilityDeleteCustomModifier ==
    /\ character # None
    /\ inspectorState.isOpen
    /\ LET abilityKey == inspectorState.selectedAbility[1].key
           current == StoredModifiers(inspectorState, abilityKey)
       IN \E index \in 0..(Len(current) - 1) :
             StoreAbilityEdit("abilityCustomModifiers", "ast_ability_modifiers",
                 Put(inspectorState.abilityCustomModifiers, abilityKey, RemoveAt(current, index)))

\* handleSetOverride / handleClearOverride of AbilityScoreInspector, then
\* onSetCustomOverride(value); Clear is offered when the inspector was given
\* an override
AbilitySetCustomOverride ==
    /\ character # None
    /\ inspectorState.isOpen
    /\ LET abilityKey == inspectorState.selectedAbility[1].key
           offered == {Some(v) : v \in OverrideValues}
                      \cup (IF AbilityInspectorProps(inspectorState).customOverride # None
                            THEN {None} ELSE {})
       IN \E value \in offered :
             StoreAbilityEdit("abilityCustomOverrides", "ast_ability_overrides",
                 Put(inspectorState.abilityCustomOverrides, abilityKey, value))

\* click on the AC stat
OpenACInspector ==
    /\ character # None
    /\ ~inspectorState.isOpen
    /\ ~acInspectorOpen
    /\ acInspectorOpen' = TRUE
    /\ UNCHANGED <<deriveVars, collectVars, hpVars, hookVars,
                   character, inspectorState, acCustomModifiers,
                   acCustomOverride, localStorage>>

\* onClose of ACInspector
CloseACInspector ==
    /\ acInspectorOpen
    /\ acInspectorOpen' = FALSE
    /\ UNCHANGED <<deriveVars, collectVars, hpVars, hookVars,
                   character, inspectorState, acCustomModifiers,
                   acCustomOverride, localStorage>>

\* onAddCustomModifier(modifier) of the AC inspector
ACAddCustomModifier ==
    /\ character # None
    /\ acInspectorOpen
    /\ Len(acCustomModifiers) < MaxCustomMods
    /\ \E value \in CustomValues :
          LET updated == Append(acCustomModifiers, [source |-> "Custom", value |-> value])
          IN /\ acCustomModifiers' = updated
             /\ localStorage' = SetItem(localStorage,
                                        StorageKey("ast_ac_modifiers", character[1].id),
                                        JSONStringify(updated))
    /\ UNCHANGED <<deriveVars, collectVars, hpVars, hookVars,
                   character, inspectorState, acInspectorOpen,
                   acCustomOverride>>

\* onDeleteCustomModifier(index) of the AC inspector
ACDeleteCustomModifier ==
    /\ character # None
    /\ acInspectorOpen
    /\ \E index \in 0..(Len(acCustomModifiers) - 1) :
          LET updated == RemoveAt(acCustomModifiers, index)
          IN /\ acCustomModifiers' = updated
             /\ localStorage' = SetItem(localStorage,
                                        StorageKey("ast_ac_modifiers", character[1].id),
                                        JSONStringify(updated))
    /\ UNCHANGED <<deriveVars, collectVars, hpVars, hookVars,
                   character, inspectorState, acInspectorOpen,
                   acCustomOverride>>

\* onSetCustomOverride(value) of the AC inspector; Clear is offered when an
\* override is set
ACSetCustomOverride ==
    /\ character # None
    /\ acInspectorOpen
    /\ \E value \in {Some(v) : v \in OverrideValues}
                    \cup (IF acCustomOverride # None THEN {None} ELSE {}) :
          /\ acCustomOverride' = value
          /\ localStorage' =
                IF value = None
                THEN RemoveItem(localStorage, StorageKey("ast_ac_override", character[1].id))
                ELSE SetItem(localStorage, StorageKey("ast_ac_override", character[1].id),
                             NumberText(value[1]))
    /\ UNCHANGED <<deriveVars, collectVars, hpVars, hookVars,
                   character, inspectorState, acInspectorOpen,
                   acCustomModifiers>>

NextSheet ==
    \/ HandleAbilityClick
    \/ CloseAbilityInspector
    \/ AbilityAddCustomModifier
    \/ AbilityDeleteCustomModifier
    \/ AbilitySetCustomOverride
    \/ OpenACInspector
    \/ CloseACInspector
    \/ ACAddCustomModifier
    \/ ACDeleteCustomModifier
    \/ ACSetCustomOverride

SpecSheet == InitSheet /\ [][NextSheet]_vars

----------------------------------------------------------------------------
(* Runs with a change of character: the user edits the wisdom and AC
   customisations of the character shown and selects another character *)

InitSwitch == InitSheet

\* handleCharacterChange(characterId), the hook handing over the selected
\* character, and the load effect that follows the change of character.id
SelectCharacter ==
    /\ character # None
    /\ ~inspectorState.isOpen
    /\ ~acInspectorOpen
    /\ \E c \in Characters :
          /\ c.id # character[1].id
          /\ character' = Some(c)
          /\ inspectorState' =
                [inspectorState EXCEPT
                    !.abilityCustomModifiers =
                        LoadedOrKept(localStorage, StorageKey("ast_ability_modifiers", c.id), @),
                    !.abilityCustomOverrides =
                        LoadedOrKept(localStorage, StorageKey("ast_ability_overrides", c.id), @)]
          /\ acCustomModifiers' =
                LoadedOrKept(localStorage, StorageKey("ast_ac_modifiers", c.id), acCustomModifiers)
          /\ acCustomOverride' =
                IF StorageKey("ast_ac_override", c.id) \in DOMAIN localStorage
                THEN Some(ParseNumberText(localStorage[StorageKey("ast_ac_override", c.id)]))
                ELSE acCustomOverride
    /\ UNCHANGED <<deriveVars, collectVars, hpVars, hookVars, acInspectorOpen, localStorage>>

\* the edits of these runs: the wisdom inspector and the override 18
NextSwitch ==
    \/ SelectCharacter
    \/ HandleAbilityClick /\ inspectorState'.selectedAbility[1].key = "wisdom"
    \/ CloseAbilityInspector
    \/ AbilityAddCustomModifier
    \/ AbilitySetCustomOverride /\ inspectorState'.abilityCustomOverrides["wisdom"] = Some(18)
    \/ OpenACInspector
    \/ CloseACInspector
    \/ ACAddCustomModifier
    \/ ACSetCustomOverride /\ acCustomOverride' = Some(18)

SpecSwitch == InitSwitch /\ [][NextSwitch]_vars

----------------------------------------------------------------------------
(* Runs of the HP modal: the sheet shows a character, the user opens the
   modal, types amounts and applies damage and healing *)

\* Aria as the database returns her with a current_hp column
AriaWounded == Put(Aria, "current_hp", 12)

HPCharacters == {Aria, AriaWounded}

\* the texts typed into the fields of the modal
AmountTexts == {"", "0", "1", "7", "25", "-1", "2.5"}
CurrentHPTexts == {"", "0", "7", "25", "-1"}
TempHPTexts == {"", "2", "7", "-1"}
MaxHPModifierTexts == {"", "1", "-1", "-25"}

\* the HP the init effect sets without a stored hp_state
InitialHP(c) ==
    IF "current_hp" \in DOMAIN c THEN Some(c.current_hp)
    ELSE IF c.max_hp # 0 THEN Some(c.max_hp)
    ELSE None

\* the save effect: localStorage.setItem(`hp_state_${character.id}`, ...) unless
\* currentHP is null
HPStateSaved(store, id, current, temp, modifier) ==
    IF current = None THEN store
    ELSE SetItem(store, StorageKey("hp_state", id),
                 JSONStringify([currentHP |-> current[1], tempHP |-> temp,
                                maxHPModifier |-> modifier]))

InitHP ==
    /\ base = BaseEmpty
    /\ bonuses = <<>>
    /\ derivedStats = None
    /\ IdleCollect
    /\ character \in {Some(c) : c \in HPCharacters}
    /\ inspectorState = [isOpen |-> FALSE, selectedAbility |-> None,
                         abilityCustomModifiers |-> EmptyMap,
                         abilityCustomOverrides |-> EmptyMap]
    /\ acInspectorOpen = FALSE
    /\ acCustomModifiers = <<>>
    /\ acCustomOverride = None
    /\ currentHP = InitialHP(character[1])
    /\ tempHP = 0
    /\ maxHPModifier = 0
    /\ isHPModalOpen = FALSE
    /\ damageInput = ""
    /\ localStorage = HPStateSaved(EmptyMap, character[1].id, currentHP, 0, 0)
    /\ IdleHook

\* what an HP step leaves alone
HPFrame ==
    UNCHANGED <<deriveVars, collectVars, hookVars, character, inspectorState,
                acInspectorOpen, acCustomModifiers, acCustomOverride>>

\* a change of the HP state followed by the save effect
SetHPState(current, temp, modifier) ==
    /\ currentHP' = current
    /\ tempHP' = temp
    /\ maxHPModifier' = modifier
    /\ localStorage' = HPStateSaved(localStorage, character[1].id, current, temp, modifier)

\* onClick of the HP display
OpenHPModal ==
    /\ character # None
    /\ ~isHPModalOpen
    /\ isHPModalOpen' = TRUE
    /\ UNCHANGED <<currentHP, tempHP, maxHPModifier, damageInput, localStorage>>
    /\ HPFrame

\* onClose of HPEditModal
CloseHPModal ==
    /\ isHPModalOpen
    /\ isHPModalOpen' = FALSE
    /\ UNCHANGED <<currentHP, tempHP, maxHPModifier, damageInput, localStorage>>
    /\ HPFrame

\* onChange of the amount field
SetDamageInput ==
    /\ isHPModalOpen
    /\ \E text \in AmountTexts : damageInput' = text
    /\ UNCHANGED <<currentHP, tempHP, maxHPModifier, isHPModalOpen, localStorage>>
    /\ HPFrame

displayMaxHP == character[1].max_hp + maxHPModifier

\* the early return of handleDamage and handleHealing
IsRejectedAmount(text) ==
    \/ text = ""
    \/ ParseInt(text) = None
    \/ ParseInt(text)[1] <= 0
    \/ Includes(text, ".")
    \/ Includes(text, "-")

handleDamage ==
    /\ isHPModalOpen
    /\ IF IsRejectedAmount(damageInput)
       THEN UNCHANGED <<currentHP, tempHP, maxHPModifier, localStorage>>
       ELSE LET damageAmount == ParseInt(damageInput)[1]
                tempDamage == IF tempHP > 0 THEN Min(tempHP, damageAmount) ELSE 0
                newCurrent == currentHP[1] - (damageAmount - tempDamage)
            IN SetHPState(Some(Max(0, Min(newCurrent, displayMaxHP))),
                          tempHP - tempDamage, maxHPModifier)
    /\ UNCHANGED <<isHPModalOpen, damageInput>>
    /\ HPFrame

handleHealing ==
    /\ isHPModalOpen
    /\ IF IsRejectedAmount(damageInput)
       THEN UNCHANGED <<currentHP, tempHP, maxHPModifier, localStorage>>
       ELSE LET healAmount == ParseInt(damageInput)[1]
            IN SetHPState(Some(Max(0, Min(currentHP[1] + healAmount, displayMaxHP))),
                          tempHP, maxHPModifier)
    /\ UNCHANGED <<isHPModalOpen, damageInput>>
    /\ HPFrame

\* onChange of the Current HP field
SetCurrentHP ==
    /\ isHPModalOpen
    /\ \E text \in CurrentHPTexts :
          SetHPState(Some(Max(0, Min(ParseIntOrZero(text), displayMaxHP))),
                     tempHP, maxHPModifier)
    /\ UNCHANGED <<isHPModalOpen, damageInput>>
    /\ HPFrame

\* onChange of the Max HP Modifier field
SetMaxHPModifier ==
    /\ isHPModalOpen
    /\ \E text \in MaxHPModifierTexts :
          SetHPState(currentHP, tempHP, IF text = "" THEN 0 ELSE ParseIntOrZero(text))
    /\ UNCHANGED <<isHPModalOpen, damageInput>>
    /\ HPFrame

\* onChange of the Temporary HP field
SetTempHP ==
    /\ isHPModalOpen
    /\ \E text \in TempHPTexts :
          SetHPState(currentHP, IF text = "" THEN 0 ELSE Max(0, ParseIntOrZero(text)),
                     maxHPModifier)
    /\ UNCHANGED <<isHPModalOpen, damageInput>>
    /\ HPFrame

NextHP ==
    \/ OpenHPModal
    \/ CloseHPModal
    \/ SetDamageInput
    \/ handleDamage
    \/ handleHealing
    \/ SetCurrentHP
    \/ SetMaxHPModifier
    \/ SetTempHP

SpecHP == InitHP /\ [][NextHP]_vars

----------------------------------------------------------------------------
(* Runs of useCharacter: the list of characters is loaded, the user selects
   characters and refetches the inventory, and the queries complete in any
   order *)

\* the rows the `characters` query returned for an admin
FetchedCharacters == <<[id |-> "c1"], [id |-> "c2"]>>

\* the number of queries that can be outstanding together
MaxRequests == 3

\* characters.find((c) => c.id === selectedCharacterId) || null, null without a selection
baseCharacter(characters, id) ==
    IF id = "" THEN None
    ELSE IF \E i \in 1..Len(characters) : characters[i].id = id
         THEN Some(characters[CHOOSE i \in 1..Len(characters) :
                                  /\ characters[i].id = id
                                  /\ \A j \in 1..(i - 1) : characters[j].id # id])
         ELSE None

\* the rows of .from(table).select(...).eq('character_id', id)
RelatedRows(table, id) == [table |-> table, character_id |-> id]

RelatedFields == {"skills", "spells", "inventory", "features", "feats", "senses"}

\* the `related` object fetchRelatedData builds from its six results
RelatedOf(id) == [f \in RelatedFields |-> RelatedRows(f, id)]

\* buildCharacter(base, related); related.classSpecific is never set
buildCharacter(b, related) ==
    IF b = None THEN None
    ELSE Some([k \in DOMAIN b[1] \cup RelatedFields \cup {"class_specific"} |->
                 IF k \in RelatedFields THEN related[k]
                 ELSE IF k = "class_specific" THEN None
                 ELSE b[1][k]])

\* a query in flight: what it asks for and what its closure holds
Request(kind, id) ==
    [kind |-> kind, id |-> id, baseCharacter |-> baseCharacter(FetchedCharacters, id)]

\* the state after fetchCharacters has set the list and selected its first
\* row, and the effects of that render have run
InitHook ==
    /\ base = BaseEmpty
    /\ bonuses = <<>>
    /\ derivedStats = None
    /\ IdleCollect
    /\ character = None
    /\ inspectorState = [isOpen |-> FALSE, selectedAbility |-> None,
                         abilityCustomModifiers |-> EmptyMap,
                         abilityCustomOverrides |-> EmptyMap]
    /\ acInspectorOpen = FALSE
    /\ acCustomModifiers = <<>>
    /\ acCustomOverride = None
    /\ localStorage = EmptyMap
    /\ IdleHP
    /\ selectedCharacterId = FetchedCharacters[1].id
    /\ hookCharacter = baseCharacter(FetchedCharacters, selectedCharacterId)
    /\ relatedLoading = TRUE
    /\ error = ""
    /\ requests = <<Request("related", selectedCharacterId)>>

\* what a step of the hook leaves alone
HookFrame ==
    UNCHANGED <<deriveVars, collectVars, hpVars, character, inspectorState, acInspectorOpen,
                acCustomModifiers, acCustomOverride, localStorage>>

\* setSelectedCharacterId(id) with another id, then the two effects of the
\* render: setCharacter(baseCharacter || null) and the start of fetchRelatedData
setSelectedCharacterId ==
    /\ Len(requests) < MaxRequests
    /\ \E i \in 1..Len(FetchedCharacters) :
          LET id == FetchedCharacters[i].id
          IN /\ id # selectedCharacterId
             /\ selectedCharacterId' = id
             /\ hookCharacter' = baseCharacter(FetchedCharacters, id)
             /\ relatedLoading' = TRUE
             /\ requests' = Append(requests, Request("related", id))
    /\ UNCHANGED error
    /\ HookFrame

\* the Promise.all of fetchRelatedData settles: with six results the data is
\* attached to the character then held, with an error the error is kept
fetchRelatedDataSettles ==
    /\ \E i \in 1..Len(requests) :
          /\ requests[i].kind = "related"
          /\ requests' = RemoveAt(requests, i - 1)
          /\ \E ok \in BOOLEAN :
                IF ok
                THEN /\ hookCharacter' =
                            buildCharacter(IF hookCharacter # None THEN hookCharacter
                                           ELSE requests[i].baseCharacter,
                                           RelatedOf(requests[i].id))
                     /\ UNCHANGED error
                ELSE /\ error' = "Failed to load character details"
                     /\ UNCHANGED hookCharacter
    /\ relatedLoading' = FALSE
    /\ UNCHANGED selectedCharacterId
    /\ HookFrame

\* refetchInventory() up to its await
refetchInventory ==
    /\ selectedCharacterId # ""
    /\ Len(requests) < MaxRequests
    /\ requests' = Append(requests, Request("inventory", selectedCharacterId))
    /\ UNCHANGED <<selectedCharacterId, hookCharacter, relatedLoading, error>>
    /\ HookFrame

\* the query of refetchInventory settles
refetchInventorySettles ==
    /\ \E i \in 1..Len(requests) :
          /\ requests[i].kind = "inventory"
          /\ requests' = RemoveAt(requests, i - 1)
          /\ \E ok \in BOOLEAN :
                IF ok
                THEN hookCharacter' =
                        IF hookCharacter # None
                        THEN Some(Put(hookCharacter[1], "inventory",
                                      RelatedRows("inventory", requests[i].id)))
                        ELSE None
                ELSE UNCHANGED hookCharacter
    /\ UNCHANGED <<selectedCharacterId, relatedLoading, error>>
    /\ HookFrame

NextHook ==
    \/ setSelectedCharacterId
    \/ fetchRelatedDataSettles
    \/ refetchInventory
    \/ refetchInventorySettles

SpecHook == InitHook /\ [][NextHook]_vars

----------------------------------------------------------------------------
(* Properties of deriveCharacterStats *)

\* the non-null bonuses of the last call, in input order
RECURSIVE PresentBonuses(_)
PresentBonuses(list) ==
    IF list = <<>> THEN <<>>
    ELSE IF Head(list) = None THEN PresentBonuses(Tail(list))
    ELSE <<Head(list)[1]>> \o PresentBonuses(Tail(list))

\* the arithmetic sum of the values of the bonuses of a list that satisfy P
RECURSIVE SumValues(_)
SumValues(list) ==
    IF list = <<>> THEN 0 ELSE Head(list).value[1] + SumValues(Tail(list))

SumWhere(list, P(_)) == SumValues(SelectSeq(list, P))

CountWhere(list, P(_)) == Cardinality({i \in DOMAIN list : P(list[i])})

\* the text after the prefix of a dotted target, as the routing table reads it
NamesPlain(b, name) == b.target[1] = Plain(name)
NamesDotted(b, prefix, name) == b.target[1] = Dotted(prefix, name)
NamesLowered(b, prefix, type) ==
    /\ b.target[1].head = prefix
    /\ b.target[1].rest # None
    /\ ToLowerCase(b.target[1].rest[1]) = type

SkillNames == {"history", "religion", "arcana"}
SaveNames == Abilities
TypeNames == {"walk", "fly", "swim", "darkvision", "blindsight"}

\* a keyed sum bucket holds the sum of the bonuses that address the key, and
\* has no entry for a key that no bonus addresses
KeyedSumOk(bucket, list, Addresses(_, _), names) ==
    /\ DOMAIN bucket \subseteq names
    /\ \A n \in names :
          LET P(b) == Addresses(b, n) IN
          IF CountWhere(list, P) > 0
          THEN n \in DOMAIN bucket /\ bucket[n] = SumWhere(list, P)
          ELSE n \notin DOMAIN bucket

AddressesSkill(b, n) == NamesDotted(b, "skill", n)
AddressesSave(b, n) == NamesDotted(b, "save", n)
AddressesSpeed(b, n) == NamesLowered(b, "speed", n)
AddressesSense(b, n) == NamesLowered(b, "sense", n)

\* C1: after every deriveCharacterStats call, each sum bucket of totals
\* (ability.<a>, maxHP, ac, initiative, passivePerception, skill.<name>,
\* save.<name>, speed.<type>) equals the arithmetic sum of the values of
\* exactly the bonuses whose target addresses that bucket, negative values
\* included.
C1_SumBucketsAdditive ==
    derivedStats # None =>
        LET call == derivedStats[1]
            list == PresentBonuses(call.bonuses)
            totals == call.out.totals
            IsAc(b) == NamesPlain(b, "ac")
            IsMaxHP(b) == NamesPlain(b, "maxHP")
            IsInit(b) == NamesPlain(b, "initiative")
            IsPP(b) == NamesPlain(b, "passivePerception")
        IN  /\ \A a \in Abilities :
                  LET IsAbility(b) == NamesDotted(b, "ability", a)
                  IN totals.abilities[a] = SumWhere(list, IsAbility)
            /\ totals.maxHP = SumWhere(list, IsMaxHP)
            /\ totals.ac = SumWhere(list, IsAc)
            /\ totals.initiative = SumWhere(list, IsInit)
            /\ totals.passivePerception = SumWhere(list, IsPP)
            /\ KeyedSumOk(totals.skills, list, AddressesSkill, SkillNames)
            /\ KeyedSumOk(totals.saves, list, AddressesSave, SaveNames)
            /\ KeyedSumOk(totals.speeds, list, AddressesSpeed, TypeNames)

\* a call with an ac bonus of +3 and an ac penalty of -1, totalling 2
C1_Witness_AcPenalty ==
    /\ derivedStats # None
    /\ LET call == derivedStats[1] IN
       /\ Len(call.bonuses) = 2
       /\ call.bonuses[1][1].target[1] = Plain("ac")
       /\ call.bonuses[1][1].value[1] = 3
       /\ call.bonuses[2][1].target[1] = Plain("ac")
       /\ call.bonuses[2][1].value[1] = -1
       /\ call.out.totals.ac = 2

\* the largest element of a non-empty finite set of integers
SetMax(S) == CHOOSE m \in S : \A x \in S : x <= m

\* the base range of a sense type: the largest range the base lists for the
\* type, 0 when the base does not list the type
BaseRange(b, type) ==
    LET R == {b.senses[i].range : i \in {j \in DOMAIN b.senses : b.senses[j].sense_type = type}}
    IN IF R = {} THEN 0 ELSE SetMax(R)

\* the values of the sense bonuses of a list that address a type
SenseBonusValues(list, type) ==
    {list[i].value[1] : i \in {j \in DOMAIN list : AddressesSense(list[j], type)}}

\* max(base range or 0, largest bonus) for a type that received a bonus
MaxMerged(call, type) ==
    Max(BaseRange(call.base, type),
        SetMax(SenseBonusValues(PresentBonuses(call.bonuses), type)))

\* C2 as stated: every sense type that receives at least one sense.<type>
\* bonus is reported in derived.senses with range
\* max(base range or 0, largest bonus value).
C2_Original_EveryBonusedSenseReported ==
    derivedStats # None =>
        LET call == derivedStats[1]
            list == PresentBonuses(call.bonuses)
            senses == call.out.derived.senses
        IN \A type \in TypeNames :
              SenseBonusValues(list, type) # {} =>
                  /\ type \in DOMAIN senses
                  /\ senses[type] = MaxMerged(call, type)

\* C2 (amended): for every sense type that receives at least one bonus, let
\* m = max(base range or 0, largest bonus value); when m is positive
\* derived.senses reports the type with range m (never base + bonus, never
\* the sum of the bonuses), and when m is not positive (no positive base
\* range and no positive bonus) derived.senses has no entry for the type.
C2_SenseMaxMerge ==
    derivedStats # None =>
        LET call == derivedStats[1]
            list == PresentBonuses(call.bonuses)
            senses == call.out.derived.senses
        IN \A type \in TypeNames :
              SenseBonusValues(list, type) # {} =>
                  IF MaxMerged(call, type) > 0
                  THEN type \in DOMAIN senses /\ senses[type] = MaxMerged(call, type)
                  ELSE type \notin DOMAIN senses

\* base darkvision 2 with two darkvision bonuses of 1: the range stays 2
C2_Witness_TwoSmallBonuses ==
    /\ derivedStats # None
    /\ LET call == derivedStats[1] IN
       /\ call.base = BaseFull
       /\ Len(call.bonuses) = 2
       /\ \A i \in 1..2 : /\ call.bonuses[i][1].target[1] = Dotted("sense", "darkvision")
                          /\ call.bonuses[i][1].value[1] = 1
       /\ call.out.derived.senses["darkvision"] = 2

\* C3: after every call, each additive derived value is the base value (0
\* when the base lacks it) plus the bucket total: the six abilities, maxHP,
\* ac, initiative, passivePerception, and every speed type, a type absent
\* from the base being added with the bonus total alone.
C3_DerivedIsBasePlusTotal ==
    derivedStats # None =>
        LET call == derivedStats[1]
            b == call.base
            totals == call.out.totals
            derived == call.out.derived
            FieldOr0(slot) == IF slot = None THEN 0 ELSE slot[1]
            AbilityOr0(a) == IF b.abilities # None /\ a \in DOMAIN b.abilities[1]
                             THEN b.abilities[1][a] ELSE 0
            SpeedOr0(m, t) == IF t \in DOMAIN m THEN m[t] ELSE 0
        IN  /\ \A a \in Abilities : derived.abilities[a] = AbilityOr0(a) + totals.abilities[a]
            /\ derived.maxHP = FieldOr0(b.maxHP) + totals.maxHP
            /\ derived.ac = FieldOr0(b.acBase) + totals.ac
            /\ derived.initiative = FieldOr0(b.initiativeBase) + totals.initiative
            /\ derived.passivePerception =
                   FieldOr0(b.passivePerceptionBase) + totals.passivePerception
            /\ DOMAIN derived.speeds = DOMAIN b.speeds \cup DOMAIN totals.speeds
            /\ \A t \in DOMAIN derived.speeds :
                   derived.speeds[t] = SpeedOr0(b.speeds, t) + SpeedOr0(totals.speeds, t)

\* base walk 30 with speed.walk +3 and a bonus on a new type: walk 33, fly 3
C3_Witness_SpeedsAdded ==
    /\ derivedStats # None
    /\ LET call == derivedStats[1] IN
       /\ call.base = BaseFull
       /\ Len(call.bonuses) = 2
       /\ call.bonuses[1][1] = MakeBonus(Dotted("speed", "walk"), 3)
       /\ call.bonuses[2][1] = MakeBonus(Dotted("speed", "Fly"), 3)
       /\ call.out.derived.speeds = [k \in {"walk", "fly"} |-> IF k = "walk" THEN 33 ELSE 3]

\* C4: after every call, for each of the six abilities the derived modifier
\* m is floor((s - 10) / 2) for the post-bonus score s (base score plus the
\* ability's bonuses), i.e. the integer with 2m <= s - 10 < 2m + 2, rounding
\* toward negative infinity below 10 (8 gives -1, 3 gives -4).
C4_ModifierIsFloor ==
    derivedStats # None =>
        LET call == derivedStats[1]
            list == PresentBonuses(call.bonuses)
            derived == call.out.derived
        IN \A a \in Abilities :
              LET IsAbility(b) == NamesDotted(b, "ability", a)
                  s == BaseScore(call.base, a) + SumWhere(list, IsAbility)
                  m == derived.modifiers[a]
              IN /\ derived.abilities[a] = s
                 /\ 2 * m <= s - 10
                 /\ s - 10 < 2 * m + 2
                 /\ (s = 8 => m = -1)
                 /\ (s = 3 => m = -4)

\* strength 4 with a -1 penalty: score 3, modifier -4
C4_Witness_LowScore ==
    /\ derivedStats # None
    /\ LET call == derivedStats[1] IN
       /\ call.base = BaseLow
       /\ call.bonuses = <<Some(MakeBonus(Dotted("ability", "strength"), -1))>>
       /\ call.out.derived.abilities["strength"] = 3
       /\ call.out.derived.modifiers["strength"] = -4

\* a keyed bucket of source lists holds, for every key, the bonuses that
\* address it, in input order, and has no entry for a key no bonus addresses
KeyedSourcesOk(bucket, list, Addresses(_, _), names) ==
    /\ DOMAIN bucket \subseteq names
    /\ \A n \in names :
          LET P(b) == Addresses(b, n) IN
          IF CountWhere(list, P) > 0
          THEN n \in DOMAIN bucket /\ bucket[n] = SelectSeq(list, P)
          ELSE n \notin DOMAIN bucket

\* a keyed sum bucket holds, for each of its keys, the sum of the source list
KeyedTotalsFromSources(totals, sources) ==
    /\ DOMAIN totals = DOMAIN sources
    /\ \A n \in DOMAIN totals :
          /\ totals[n] = SumValues(sources[n])
          /\ sources[n] # <<>>

\* C26: after every deriveCharacterStats call the source list of each bucket
\* is the subsequence of the input bonuses routed to that bucket, in input
\* order, nothing left out or repeated; the total of every sum bucket is the
\* sum of the values of its source list, and a bucket with a total other
\* than 0 has a source list that is not empty.
C26_SourcesAreRoutedSubsequence ==
    (derivedStats # None /\ ~derivedStats[1].threw) =>
        LET call == derivedStats[1]
            list == PresentBonuses(call.bonuses)
            totals == call.out.totals
            sources == call.out.sources
            IsAc(b) == NamesPlain(b, "ac")
            IsMaxHP(b) == NamesPlain(b, "maxHP")
            IsInit(b) == NamesPlain(b, "initiative")
            IsPP(b) == NamesPlain(b, "passivePerception")
        IN  /\ \A a \in Abilities :
                  LET IsAbility(b) == NamesDotted(b, "ability", a)
                  IN /\ sources.abilities[a] = SelectSeq(list, IsAbility)
                     /\ totals.abilities[a] = SumValues(sources.abilities[a])
            /\ sources.maxHP = SelectSeq(list, IsMaxHP)
            /\ sources.ac = SelectSeq(list, IsAc)
            /\ sources.initiative = SelectSeq(list, IsInit)
            /\ sources.passivePerception = SelectSeq(list, IsPP)
            /\ totals.maxHP = SumValues(sources.maxHP)
            /\ totals.ac = SumValues(sources.ac)
            /\ totals.initiative = SumValues(sources.initiative)
            /\ totals.passivePerception = SumValues(sources.passivePerception)
            /\ KeyedSourcesOk(sources.skills, list, AddressesSkill, SkillNames)
            /\ KeyedSourcesOk(sources.saves, list, AddressesSave, SaveNames)
            /\ KeyedSourcesOk(sources.speeds, list, AddressesSpeed, TypeNames)
            /\ KeyedSourcesOk(sources.senses, list, AddressesSense, TypeNames)
            /\ KeyedTotalsFromSources(totals.skills, sources.skills)
            /\ KeyedTotalsFromSources(totals.saves, sources.saves)
            /\ KeyedTotalsFromSources(totals.speeds, sources.speeds)
            /\ DOMAIN totals.senses = DOMAIN sources.senses

\* two bonuses of different value on one keyed bucket: its source list holds
\* both, in input order
C26_Witness_TwoSourcesInOrder ==
    /\ derivedStats # None
    /\ ~derivedStats[1].threw
    /\ LET call == derivedStats[1] IN
       /\ Len(call.bonuses) = 2
       /\ call.bonuses[1] # None
       /\ call.bonuses[2] # None
       /\ call.bonuses[1][1].value # call.bonuses[2][1].value
       /\ \E n \in DOMAIN call.out.sources.skills \cup DOMAIN call.out.sources.speeds :
             \/ /\ n \in DOMAIN call.out.sources.skills
                /\ call.out.sources.skills[n] = <<call.bonuses[1][1], call.bonuses[2][1]>>
             \/ /\ n \in DOMAIN call.out.sources.speeds
                /\ call.out.sources.speeds[n] = <<call.bonuses[1][1], call.bonuses[2][1]>>

\* the keys of a map that differ from a type in letter case at most
KeysLike(map, type) == {k \in DOMAIN map : ToLowerCase(k) = ToLowerCase(type)}

\* C28: a speed.<type> or sense.<type> bonus whose type differs only in
\* letter case from the type of a base speed or base sense is merged into
\* that base entry (added to the base speed, maxed with the base range): the
\* derived speeds and senses hold no separate entry for the type.
C28_TypesMatchedCaseInsensitively ==
    (derivedStats # None /\ ~derivedStats[1].threw) =>
        LET call == derivedStats[1]
            list == PresentBonuses(call.bonuses)
            out == call.out
            baseSenses == toSenseMap(call.base.senses)
        IN \A i \in DOMAIN list :
              LET target == list[i].target[1] IN
              /\ (target.head = "speed" /\ target.rest # None) =>
                    \A k \in KeysLike(call.base.speeds, target.rest[1]) :
                        /\ KeysLike(out.derived.speeds, target.rest[1])
                              = KeysLike(call.base.speeds, target.rest[1])
                        /\ out.derived.speeds[k]
                              = call.base.speeds[k] + out.totals.speeds[ToLowerCase(target.rest[1])]
              /\ (target.head = "sense" /\ target.rest # None) =>
                    \A k \in KeysLike(baseSenses, target.rest[1]) :
                        /\ KeysLike(out.derived.senses, target.rest[1])
                              = KeysLike(baseSenses, target.rest[1])
                        /\ out.derived.senses[k]
                              = Max(baseSenses[k], out.totals.senses[ToLowerCase(target.rest[1])])

----------------------------------------------------------------------------
(* Properties of collectBonuses *)

\* the entries a call listed, items and features together
ListedEntries(call) == EntriesIn(call.args.items) \cup EntriesIn(call.args.features)

\* the bonuses of a collected list that carry the source id of an entry, in order
FromEntry(out, id) ==
    LET OfEntry(b) == "id" \in DOMAIN b.source /\ b.source.id = id
    IN SelectSeq(out, OfEntry)

\* target and value of each bonus of a list
TargetsAndValues(list) == [i \in DOMAIN list |-> <<list[i].target[1], list[i].value[1]>>]

\* C9: for two collectBonuses calls that share baseCharacterData (and the
\* handler registry) and both list an entry, whatever other items, features
\* and overrides they list, the bonuses collected from that entry have the
\* same targets and values; with charisma 16 the "charisma_modifier" benefit
\* always yields 3.
C9_BenefitValuesDependOnBaseOnly ==
    /\ (collected # None /\ prevCollected # None) =>
          LET a == prevCollected[1]
              b == collected[1]
          IN (a.args.baseCharacterData = b.args.baseCharacterData /\ a.handlers = b.handlers) =>
                \A e \in ListedEntries(a) \cap ListedEntries(b) :
                    TargetsAndValues(FromEntry(a.out, e.id)) = TargetsAndValues(FromEntry(b.out, e.id))
    /\ collected # None =>
          LET b == collected[1] IN
          (b.args.baseCharacterData = DataScholar /\ ScholarOfYore \in ListedEntries(b)) =>
              LET got == FromEntry(b.out, ScholarOfYore.id) IN
              /\ Len(got) = 2
              /\ \A i \in 1..2 : got[i].value[1] = 3

\* the scholar feature collected alone, then next to an item and an override
\* that both raise charisma: its bonuses are worth 3 both times
C9_Witness_CharismaRaisedElsewhere ==
    /\ collected # None
    /\ prevCollected # None
    /\ prevCollected[1].args.baseCharacterData = DataScholar
    /\ prevCollected[1].args.features = <<Some(ScholarOfYore)>>
    /\ prevCollected[1].args.items = <<>>
    /\ prevCollected[1].args.overrides = Some(<<>>)
    /\ collected[1].args.features = <<Some(ScholarOfYore)>>
    /\ collected[1].args.items = <<Some(Headband)>>
    /\ collected[1].args.overrides = Some(<<Some(RawBonus(Dotted("ability", "charisma"), 3))>>)
    /\ \A i \in 1..2 : FromEntry(collected[1].out, "e1")[i].value[1] = 3

\* the integer m with 2m <= score - 10 < 2m + 2
FloorModifier(score) == CHOOSE m \in -10..10 : 2 * m <= score - 10 /\ score - 10 < 2 * m + 2

ScoreOr10(data, ability) ==
    IF ability \in DOMAIN data /\ data[ability] # 0 THEN data[ability] ELSE 10

\* the entries of the collection runs that carry one skill_modifier_bonus
\* benefit and nothing else, with the skills it lists and the value its
\* bonus_source stands for
SkillBenefitEntries == {ScholarOfYore, Lore}

ListedSkills(e) == e.benefits[1][1][1].skills[1]

ResolvedValue(e, data) ==
    IF e = ScholarOfYore THEN FloorModifier(ScoreOr10(data, "charisma"))
    ELSE 2 * FloorModifier(ScoreOr10(data, "wisdom"))

\* the first present of name, label, title, else "Unknown"
DisplayName(e) ==
    CASE e.name # "" -> e.name
      [] e.name = "" /\ e.label # "" -> e.label
      [] e.name = "" /\ e.label = "" /\ e.title # "" -> e.title
      [] OTHER -> "Unknown"

\* how many times a name occurs in a list
Occurrences(list, name) == Cardinality({i \in DOMAIN list : list[i] = name})

\* the entry's benefit produced exactly one bonus per listed skill, in order,
\* each worth m and labelled with the entry
FanOutOk(call, e) ==
    LET m == ResolvedValue(e, call.args.baseCharacterData)
        skills == ListedSkills(e)
        got == FromEntry(call.out, e.id)
    IN m # 0 =>
          /\ Len(got) = Len(skills)
          /\ \A i \in DOMAIN skills :
                /\ got[i].target[1] = Dotted("skill", skills[i])
                /\ got[i].value[1] = m
                /\ got[i].source.label = DisplayName(e)

\* no bonus of the call other than the entry's targets the skill
OnlyContributor(call, e, skill) ==
    \A i \in DOMAIN call.out :
        call.out[i].target[1] = Dotted("skill", skill) =>
            ("id" \in DOMAIN call.out[i].source /\ call.out[i].source.id = e.id)

\* C10 as stated: an entry with a skill_modifier_bonus benefit listing n
\* skills and resolving to m # 0 yields exactly n bonuses, one per listed
\* skill, each worth m and labelled with the entry; deriveCharacterStats then
\* reports totals.skills[name] = m with exactly one source entry for each
\* listed skill.
C10_Original_OneSourcePerListedSkill ==
    /\ collected # None =>
          \A e \in SkillBenefitEntries \cap ListedEntries(collected[1]) : FanOutOk(collected[1], e)
    /\ (collected # None /\ derivedStats # None) =>
          LET call == collected[1]
              out == derivedStats[1].out
          IN \A e \in SkillBenefitEntries \cap ListedEntries(call) :
                LET m == ResolvedValue(e, call.args.baseCharacterData)
                    skills == ListedSkills(e)
                IN m # 0 =>
                      \A i \in DOMAIN skills :
                          OnlyContributor(call, e, skills[i]) =>
                              /\ skills[i] \in DOMAIN out.totals.skills
                              /\ out.totals.skills[skills[i]] = m
                              /\ Len(out.sources.skills[skills[i]]) = 1

\* C10 (amended): such an entry yields exactly n bonuses, one per listed
\* skill in order, each worth m and labelled with the entry's name (its
\* label when it has no name); when no other bonus targets the skill,
\* deriveCharacterStats reports totals.skills[name] = k * m with exactly k
\* source entries, k being the number of times the benefit lists the name
\* (m and one source entry when the listed skills are pairwise distinct).
C10_SkillFanOut ==
    /\ collected # None =>
          \A e \in SkillBenefitEntries \cap ListedEntries(collected[1]) : FanOutOk(collected[1], e)
    /\ (collected # None /\ derivedStats # None) =>
          LET call == collected[1]
              out == derivedStats[1].out
          IN \A e \in SkillBenefitEntries \cap ListedEntries(call) :
                LET m == ResolvedValue(e, call.args.baseCharacterData)
                    skills == ListedSkills(e)
                IN m # 0 =>
                      \A i \in DOMAIN skills :
                          OnlyContributor(call, e, skills[i]) =>
                              LET k == Occurrences(skills, skills[i]) IN
                              /\ skills[i] \in DOMAIN out.totals.skills
                              /\ out.totals.skills[skills[i]] = k * m
                              /\ Len(out.sources.skills[skills[i]]) = k

\* the "Scholar of Yore" scenario: two bonuses of 3, then history and
\* religion total 3 with one source entry apiece
C10_Witness_ScholarOfYore ==
    /\ collected # None
    /\ derivedStats # None
    /\ collected[1].args.baseCharacterData = DataScholar
    /\ collected[1].args.features = <<Some(ScholarOfYore)>>
    /\ collected[1].args.items = <<>>
    /\ Len(collected[1].out) = 2
    /\ \A i \in 1..2 : /\ collected[1].out[i].value[1] = 3
                       /\ collected[1].out[i].source.label = "Scholar of Yore"
    /\ derivedStats[1].out.totals.skills = [k \in {"religion", "history"} |-> 3]
    /\ Len(derivedStats[1].out.sources.skills["history"]) = 1
    /\ Len(derivedStats[1].out.sources.skills["religion"]) = 1

IsReordering(s, t) ==
    /\ Len(s) = Len(t)
    /\ \A x \in {s[i] : i \in DOMAIN s} \cup {t[i] : i \in DOMAIN t} :
          Cardinality({i \in DOMAIN s : s[i] = x}) = Cardinality({i \in DOMAIN t : t[i] = x})

\* the two last calls were given the same lists up to their order, the same
\* base data and the same registry
ReorderedCalls ==
    /\ collected # None
    /\ prevCollected # None
    /\ ~collected[1].threw
    /\ ~prevCollected[1].threw
    /\ prevCollected[1].handlers = collected[1].handlers
    /\ prevCollected[1].args.baseCharacterData = collected[1].args.baseCharacterData
    /\ IsReordering(prevCollected[1].args.items, collected[1].args.items)
    /\ IsReordering(prevCollected[1].args.features, collected[1].args.features)
    /\ IsReordering(prevCollected[1].args.overrides[1], collected[1].args.overrides[1])

\* what deriveCharacterStats makes of the result of a call
DerivedFrom(call) == deriveCharacterStats(base, AsSlots(call.out))

----------------------------------------------------------------------------
(* Properties of the character sheet and its inspectors *)

\* the character on the sheet (the runs of the sheet always hold one)
Shown == character[1]

\* the ability whose inspector is open
OpenKey == inspectorState.selectedAbility[1].key

\* the precedence the sheet documents: the override when one is stored, else
\* the computed value plus the custom modifiers
Precedence(o, v, M) == IF o # None THEN o[1] ELSE v + CustomTotal(M)

\* the engine-computed score of an ability: base plus every bonus on it
EngineScore(key) == Shown[key] + BonusTotal(getAbilityBonuses(SheetAllBonuses(Shown), key))

\* the engine-computed armor class: base AC plus every ac bonus
EngineAC ==
    LET IsAc(b) == b.target[1] = Plain("ac")
    IN SheetBaseAC(Shown) + BonusTotal(SelectSeq(SheetAllBonuses(Shown), IsAc))

SheetAbilitiesFollowPrecedence ==
    \A key \in Abilities :
        SheetFinalScore(Shown, inspectorState, key)
            = Precedence(StoredOverride(inspectorState, key), EngineScore(key),
                         StoredModifiers(inspectorState, key))

SheetACFollowsPrecedence ==
    SheetAC(Shown, acCustomModifiers, acCustomOverride)
        = Precedence(acCustomOverride, EngineAC, acCustomModifiers)

ACInspectorFollowsPrecedence ==
    acInspectorOpen =>
        ACInspectorTotal(Shown, acCustomModifiers, acCustomOverride)
            = Precedence(acCustomOverride, EngineAC, acCustomModifiers)

AbilityInspectorFollowsPrecedence ==
    inspectorState.isOpen =>
        AbilityInspectorTotal(inspectorState)
            = Precedence(StoredOverride(inspectorState, OpenKey), EngineScore(OpenKey),
                         StoredModifiers(inspectorState, OpenKey))

\* C5: for ability scores and for AC, on the sheet and in both inspectors, the
\* value shown is the override o whenever one is stored (o = 0 included) and
\* the computed value plus the custom modifiers when none is stored.
C5_OverridePrecedenceEverywhere ==
    /\ SheetAbilitiesFollowPrecedence
    /\ SheetACFollowsPrecedence
    /\ ACInspectorFollowsPrecedence
    /\ AbilityInspectorFollowsPrecedence

\* C6: after any sequence of custom-modifier and override edits, the total of
\* the open ability-score inspector equals the final score the sheet shows for
\* that ability.
C6_InspectorTotalEqualsSheetScore ==
    inspectorState.isOpen =>
        AbilityInspectorTotal(inspectorState) = SheetFinalScore(Shown, inspectorState, OpenKey)

\* the final score of an ability read from the stored edits
FinalScore(key) ==
    Precedence(StoredOverride(inspectorState, key), EngineScore(key),
               StoredModifiers(inspectorState, key))

\* C7: after any sequence of custom-modifier and override edits, the modifier
\* the sheet shows for an ability is floor((final score - 10) / 2), final
\* score being the score after the override and the custom modifiers.
C7_ModifierFromFinalScore ==
    \A key \in Abilities :
        LET m == derivedMods(Shown, inspectorState)[key]
        IN /\ 2 * m <= FinalScore(key) - 10
           /\ FinalScore(key) - 10 < 2 * m + 2

\* dexterity 14 overridden to 18: the sheet shows +4 where the engine's
\* modifier is +2
C7_Witness_Override18 ==
    /\ character # None
    /\ Shown.dexterity = 14
    /\ StoredOverride(inspectorState, "dexterity") = Some(18)
    /\ SheetDerive(Shown).derived.modifiers["dexterity"] = 2
    /\ derivedMods(Shown, inspectorState)["dexterity"] = 4

\* sum of the bonuses on the initiative
InitiativeBonusTotal ==
    LET IsInitiative(b) == b.target[1] = Plain("initiative")
    IN BonusTotal(SelectSeq(SheetAllBonuses(Shown), IsInitiative))

\* C8: the initiative, the armor class (when no AC override is set) and the
\* passive perception the sheet shows are built from the modifiers of the
\* final dexterity and wisdom scores.
C8_DisplayedValuesUseFinalModifier ==
    LET mods == derivedMods(Shown, inspectorState)
        IsAc(b) == b.target[1] = Plain("ac")
    IN /\ SheetInitiative(Shown) = mods["dexterity"] + InitiativeBonusTotal
       /\ SheetPassivePerception(Shown, inspectorState) = 10 + mods["wisdom"]
       /\ acCustomOverride = None =>
             SheetAC(Shown, acCustomModifiers, acCustomOverride)
                 = calculateBaseAC(Shown.inventory, mods["dexterity"])
                   + BonusTotal(SelectSeq(SheetAllBonuses(Shown), IsAc))
                   + CustomTotal(acCustomModifiers)

----------------------------------------------------------------------------
(* Properties of the runs with malformed data *)

\* the non-null entries of a list
PresentEntries(list) == {list[i][1] : i \in {j \in DOMAIN list : list[j] # None}}

\* a list of entry slots with F applied to every non-null entry
MapEntries(list, F(_)) ==
    [i \in DOMAIN list |-> IF list[i] = None THEN None ELSE Some(F(list[i][1]))]

\* what the last collectBonuses call did: raised, or returned a list
CallOutcome(call) == [threw |-> call.threw, out |-> call.out]

\* a benefit the dispatch is to handle: null, without type, or of a type
\* with a registered handler
IsDispatchable(slot) ==
    \/ slot = None
    \/ slot[1].type = ""
    \/ slot[1].type \in DOMAIN benefitHandlers

WithoutUnregistered(e) ==
    [e EXCEPT !.benefits = IF @ = None THEN None ELSE Some(SelectSeq(@[1], IsDispatchable))]

\* C12: a benefit whose type has no handler in the registry yields no bonus
\* and raises nothing: the call returns, and returns what it returns without
\* those benefits.
C12_UnregisteredTypeIgnored ==
    collected # None =>
        LET call == collected[1]
            cleaned == [call.args EXCEPT !.items = MapEntries(@, WithoutUnregistered),
                                         !.features = MapEntries(@, WithoutUnregistered)]
        IN /\ ~call.threw
           /\ call.out = collectOutcome(cleaned).out

\* a raw bonus the normalizer accepts
IsWellFormed(slot) == slot # None /\ slot[1].target # None /\ slot[1].value # None

WithoutRejected(e) ==
    [e EXCEPT !.bonuses = IF @ = None THEN None ELSE Some(SelectSeq(@[1], IsWellFormed)),
              !.bonus = IF @ # None /\ ~IsWellFormed(@) THEN None ELSE @]

\* C13: a raw bonus that is not an object, has no string target or has no
\* numeric value adds nothing and raises nothing: the call does what it does
\* without those raw bonuses, every collected bonus has a target and a value,
\* and the relic's five raw bonuses leave exactly its two well-formed ones.
C13_RejectedBonusAddsNothing ==
    collected # None =>
        LET call == collected[1]
            cleaned ==
                [call.args EXCEPT
                    !.items = MapEntries(@, WithoutRejected),
                    !.features = MapEntries(@, WithoutRejected),
                    !.overrides = IF @ = None THEN None ELSE Some(SelectSeq(@[1], IsWellFormed))]
        IN /\ CallOutcome(call) = collectOutcome(cleaned)
           /\ \A i \in DOMAIN call.out :
                 call.out[i].target # None /\ call.out[i].value # None
           /\ (~call.threw
               /\ Relic \in PresentEntries(call.args.items) \cup PresentEntries(call.args.features))
              => TargetsAndValues(FromEntry(call.out, Relic.id))
                   = << <<Plain("ac"), 1>>, <<Plain("damage"), 2>> >>

\* the relic among the items, the nameless entry among the features and a
\* manual bonus without target: the call returns the relic's two well-formed
\* bonuses and the nameless entry's two
C13_Witness_RelicAndNameless ==
    /\ collected # None
    /\ ~collected[1].threw
    /\ collected[1].args.items = <<Some(Relic)>>
    /\ collected[1].args.features = <<Some(Nameless)>>
    /\ collected[1].args.overrides = Some(<<Some(NoTargetBonus)>>)
    /\ Len(FromEntry(collected[1].out, Relic.id)) = 2
    /\ Len(collected[1].out) = 4

\* the target shapes the engine routes
IsRecognizedTarget(target) ==
    \/ target.rest = None /\ target.head \in {"maxHP", "ac", "initiative", "passivePerception"}
    \/ /\ target.rest # None
       /\ target.rest[1] # ""
       /\ \/ target.head \in {"skill", "save", "speed", "sense"}
          \/ target.head = "ability" /\ target.rest[1] \in Abilities

\* C14: every bonus collectBonuses returns has a target of a recognized
\* shape, a numeric value, a type and a source.
C14_CollectedBonusesCanonical ==
    collected # None =>
        \A i \in DOMAIN collected[1].out :
            LET b == collected[1].out[i] IN
            /\ b.target # None
            /\ IsRecognizedTarget(b.target[1])
            /\ b.value # None
            /\ b.value[1] \in Int
            /\ b.type # ""
            /\ "label" \in DOMAIN b.source

\* C15: deriveCharacterStats raises nothing, whatever the bonus list, and
\* returns derived, totals and sources.
C15_DeriveNeverThrows ==
    derivedStats # None =>
        /\ ~derivedStats[1].threw
        /\ DOMAIN derivedStats[1].out = {"derived", "totals", "sources"}

\* an entry, or an element of a bonuses or benefits array, that is skipped
HasContent(slot) ==
    /\ slot # None
    /\ slot[1].bonuses # None \/ slot[1].bonus # None \/ slot[1].benefits # None

IsPresentSlot(slot) == slot # None

WithoutNullElements(e) ==
    [e EXCEPT !.bonuses = IF @ = None THEN None ELSE Some(SelectSeq(@[1], IsPresentSlot)),
              !.benefits = IF @ = None THEN None ELSE Some(SelectSeq(@[1], IsPresentSlot))]

\* C16: a null entry, an entry without bonuses, bonus and benefits, and a
\* null element of a bonuses or benefits array are skipped and raise nothing:
\* the call does what it does without them.
C16_MalformedEntriesSkipped ==
    collected # None =>
        LET call == collected[1]
            cleaned ==
                [call.args EXCEPT
                    !.items = MapEntries(SelectSeq(@, HasContent), WithoutNullElements),
                    !.features = MapEntries(SelectSeq(@, HasContent), WithoutNullElements)]
        IN /\ CallOutcome(call) = collectOutcome(cleaned)
           /\ (\A i \in DOMAIN call.args.items : ~HasContent(call.args.items[i]))
              /\ (\A i \in DOMAIN call.args.features : ~HasContent(call.args.features[i]))
              /\ call.args.overrides = Some(<<>>)
              => (~call.threw /\ call.out = <<>>)

\* a null item before the nameless entry, whose benefits array starts with a
\* null element, and a feature without content: the nameless entry's two
\* bonuses are returned
C16_Witness_NullBeforeNameless ==
    /\ collected # None
    /\ collected[1].args.items = <<None, Some(Nameless)>>
    /\ collected[1].args.features = <<>>
    /\ ~collected[1].threw
    /\ TargetsAndValues(collected[1].out)
         = << <<Dotted("skill", "stealth"), 2>>, <<Plain("ac"), 2>> >>

\* a target that matches no known pattern, or names an ability outside the six
IsUnrouted(slot) ==
    /\ slot # None
    /\ slot[1].target # None
    /\ LET target == slot[1].target[1] IN
       \/ target.rest = None
          /\ target.head \notin {"maxHP", "ac", "initiative", "passivePerception"}
       \/ target.rest # None
          /\ target.head \notin {"ability", "skill", "save", "speed", "sense"}
       \/ target.rest # None /\ target.head = "ability" /\ target.rest[1] \notin Abilities

\* a list without its i-th element
WithoutElement(list, i) ==
    [j \in 1..(Len(list) - 1) |-> IF j < i THEN list[j] ELSE list[j + 1]]

\* C17: a bonus whose target matches no known pattern, or names an ability
\* outside the six, is routed nowhere: the call does what it does on the list
\* without that bonus.
C17_UnknownTargetRoutedNowhere ==
    derivedStats # None =>
        LET call == derivedStats[1] IN
        \A i \in DOMAIN call.bonuses :
            IsUnrouted(call.bonuses[i]) =>
                [threw |-> call.threw, out |-> call.out]
                    = deriveOutcome(call.base, WithoutElement(call.bonuses, i))

\* the source collectFromList builds for an entry
EntrySource(e, sourceType) == [type |-> sourceType, id |-> e.id, label |-> DisplayName(e)]

CountSource(out, source) == Cardinality({i \in DOMAIN out : out[i].source = source})

\* C20: every bonus collected from an item carries {type "item", id, label},
\* every bonus from a feature {type "feature", id, label}, label being the
\* first present of name, label, title, else "Unknown", whatever source the
\* raw bonus carries; every bonus from the overrides carries
\* {type "override", label "Override"}.
C20_SourceOfCollectedBonus ==
    (collected # None /\ ~collected[1].threw) =>
        LET call == collected[1]
            out == call.out
            fromItems == {EntrySource(e, "item") : e \in PresentEntries(call.args.items)}
            fromFeatures == {EntrySource(e, "feature") : e \in PresentEntries(call.args.features)}
            onlyItems == [call.args EXCEPT !.features = <<>>, !.overrides = Some(<<>>)]
            onlyFeatures == [call.args EXCEPT !.items = <<>>, !.overrides = Some(<<>>)]
            onlyOverrides == [call.args EXCEPT !.items = <<>>, !.features = <<>>]
            nItems == Len(collectOutcome(onlyItems).out)
            nFeatures == Len(collectOutcome(onlyFeatures).out)
            nOverrides == Len(collectOutcome(onlyOverrides).out)
        IN /\ Len(out) = nItems + nFeatures + nOverrides
           /\ \A i \in DOMAIN out :
                 IF i <= nItems THEN out[i].source \in fromItems
                 ELSE IF i <= nItems + nFeatures THEN out[i].source \in fromFeatures
                 ELSE out[i].source = OverrideSource

\* the relic (a title only) as an item, the nameless entry as a feature and a
\* manual bonus that carries its own source
C20_Witness_TitleUnknownOverride ==
    /\ collected # None
    /\ ~collected[1].threw
    /\ collected[1].args.items = <<Some(Relic)>>
    /\ collected[1].args.features = <<Some(Nameless)>>
    /\ collected[1].args.overrides = Some(<<Some(SourcedBonus)>>)
    /\ CountSource(collected[1].out, [type |-> "item", id |-> "m1", label |-> "Relic"]) = 2
    /\ CountSource(collected[1].out, [type |-> "feature", id |-> "m2", label |-> "Unknown"]) = 2
    /\ CountSource(collected[1].out, OverrideSource) = 1

----------------------------------------------------------------------------
(* Properties of the runs with a changing registry *)

\* the two last collectBonuses calls were given identical arguments
SameArguments ==
    /\ collected # None
    /\ prevCollected # None
    /\ prevCollected[1].args = collected[1].args

\* the two last collectBonuses calls returned the same
SameResults == CallOutcome(prevCollected[1]) = CallOutcome(collected[1])

CallsLeaveArguments ==
    /\ collected' # collected =>
          /\ collected'[1].args = CollectArgs
          /\ UNCHANGED <<base, items, features, overrides, baseCharacterData, benefitHandlers>>
    /\ derivedStats' # derivedStats =>
          /\ derivedStats'[1].base = base
          /\ derivedStats'[1].bonuses = AsSlots(collected[1].out)
          /\ derivedStats'[1].out = deriveOutcome(base, AsSlots(collected[1].out)).out
          /\ UNCHANGED <<base, collectVars>>

----------------------------------------------------------------------------
(* Properties of the runs over modifier references *)

\* the two documented grammars: "proficiency_bonus", and "<ability>_modifier"
\* optionally followed by "_doubled" or "_halved"
IsRecognizedReference(ref) ==
    /\ ref # None
    /\ LET words == ref[1] IN
       \/ words = <<"proficiency", "bonus">>
       \/ /\ Len(words) \in {2, 3}
          /\ words[1] \in Abilities
          /\ words[2] = "modifier"
          /\ Len(words) = 3 => words[3] \in {"doubled", "halved"}

\* the bonus_source of a listed reference feature
ReferenceOf(e) == e.benefits[1][1][1].bonus_source

\* C21: a reference string outside the two documented grammars resolves to 0
\* and the benefit that names it emits no bonus.
C21_UnknownReferenceResolvesToZero ==
    collected # None =>
        \A e \in PresentEntries(collected[1].args.features) :
            ~IsRecognizedReference(ReferenceOf(e)) =>
                /\ resolveModifierValue(ReferenceOf(e), collected[1].args.baseCharacterData) = 0
                /\ FromEntry(collected[1].out, e.id) = <<>>

----------------------------------------------------------------------------
(* Properties of the renders of the sheet *)

\* the bonuses a render collected from the aura's "proficiency_bonus" benefit
ProficiencyBonuses(out) ==
    LET FromBenefit(b) ==
            /\ "id" \in DOMAIN b.source
            /\ b.source.id = Aura.id
            /\ b.target[1].head = "ability"
    IN SelectSeq(out, FromBenefit)

\* C22: in the render of the sheet, every bonus of a benefit whose
\* bonus_source is "proficiency_bonus" has the proficiency bonus the sheet
\* computes and passes to deriveCharacterStats as base.proficiency.
C22_ProficiencyReferenceIsSheetProficiency ==
    (character # None /\ collected # None /\ derivedStats # None) =>
        \A i \in DOMAIN ProficiencyBonuses(collected[1].out) :
            ProficiencyBonuses(collected[1].out)[i].value[1] = derivedStats[1].base.proficiency[1]

----------------------------------------------------------------------------
(* Properties of the runs of the dispatch *)

\* the single benefit of a feature that holds one
OnlyBenefit(e) == e.benefits[1][1][1]

\* what the registry of a call makes of a benefit: the output of the handler
\* registered for its type, normalized, and nothing for a type without one
DispatchedBy(call, e) ==
    LET benefit == OnlyBenefit(e)
        source == Some(EntrySource(e, "feature"))
    IN IF benefit.type \in DOMAIN call.handlers
       THEN pushBonuses(ApplyHandler(call.handlers[benefit.type], benefit,
                                     call.args.baseCharacterData, source), source)
       ELSE <<>>

\* the raw bonuses of an entry, normalized
RawBonusesOf(e) ==
    IF e.bonuses = None THEN <<>>
    ELSE pushBonuses(e.bonuses[1], Some(EntrySource(e, "feature")))

\* a registration sets the handler of one type and leaves the others
OneTypeRegistered ==
    benefitHandlers' # benefitHandlers =>
        \E type \in DOMAIN benefitHandlers' :
            /\ DOMAIN benefitHandlers' = DOMAIN benefitHandlers \cup {type}
            /\ \A other \in DOMAIN benefitHandlers \ {type} :
                  benefitHandlers'[other] = benefitHandlers[other]

\* C23: after any sequence of registerBenefitHandler calls a benefit of type
\* t is dispatched to the handler last registered for t, a type neither
\* registered nor built in yields an empty list, and a registration leaves
\* the handlers of the other types as they were.
C23_DispatchFollowsRegistry ==
    /\ [](collected # None =>
            /\ ~collected[1].threw
            /\ \A e \in PresentEntries(collected[1].args.features) :
                  FromEntry(collected[1].out, e.id) = RawBonusesOf(e) \o DispatchedBy(collected[1], e))
    /\ [][OneTypeRegistered]_vars

\* C27: every bonus a handler returns, built-in or registered at run time,
\* goes through the normalizer: an output that is not an object or has no
\* string target or no numeric value is dropped, and a retained bonus carries
\* the source of the entry that holds the benefit, whatever source the
\* handler put on it.
C27_HandlerOutputNormalized ==
    (collected # None /\ ~collected[1].threw) =>
        LET call == collected[1] IN
        /\ \A i \in DOMAIN call.out :
              /\ call.out[i].target # None
              /\ call.out[i].value # None
              /\ call.out[i].source \in
                    {EntrySource(e, "feature") : e \in PresentEntries(call.args.features)}
        /\ \A e \in PresentEntries(call.args.features) :
              (OnlyBenefit(e).type \in DOMAIN call.handlers
                  /\ call.handlers[OnlyBenefit(e).type] = "caller_handler") =>
                    Len(FromEntry(call.out, e.id)) = Len(RawBonusesOf(e)) + 1

\* the caller's handler is registered for the homebrew type: of its four
\* outputs the homebrew feature keeps the one bonus, under its own source
C27_Witness_CallerHandlerOnHomebrew ==
    /\ collected # None
    /\ ~collected[1].threw
    /\ collected[1].args.features = <<Some(Homebrew)>>
    /\ "custom_bonus" \in DOMAIN collected[1].handlers
    /\ collected[1].handlers["custom_bonus"] = "caller_handler"
    /\ Len(CallerHandlerOutput) = 4
    /\ Len(collected[1].out) = 1
    /\ collected[1].out[1].target = Some(Plain("initiative"))
    /\ collected[1].out[1].type = "luck"
    /\ collected[1].out[1].source = EntrySource(Homebrew, "feature")

\* the abbreviations of the six abilities in the spellings of these runs
AbilityOfAbbreviation ==
    [abbr \in {"STR", "Str", "DEX", "dex", "CON", "INT", "WIS", "wis", "CHA"} |->
        CASE abbr \in {"STR", "Str"} -> "strength"
          [] abbr \in {"DEX", "dex"} -> "dexterity"
          [] abbr = "CON" -> "constitution"
          [] abbr = "INT" -> "intelligence"
          [] abbr \in {"WIS", "wis"} -> "wisdom"
          [] OTHER -> "charisma"]

\* the integer a text starts with, if any
LeadingInteger ==
    [text \in {"2", "-1", "2.5", "0", "1"} |->
        CASE text = "2" -> 2 [] text = "-1" -> -1 [] text = "2.5" -> 2 [] text = "0" -> 0
          [] OTHER -> 1]

\* an "ABBR: n" string that names an ability and a number
IsImprovementString(str) ==
    /\ str.abbr \in DOMAIN AbilityOfAbbreviation
    /\ str.valueStr # None
    /\ str.valueStr[1] \in DOMAIN LeadingInteger

\* the bonuses claimed for one improvement
ImprovementBonuses(improvement) ==
    LET kept == SelectSeq(improvement.abilities, IsImprovementString)
    IN [i \in DOMAIN kept |->
           [target |-> Some(Dotted("ability", AbilityOfAbbreviation[kept[i].abbr])),
            value |-> Some(LeadingInteger[kept[i].valueStr[1]]),
            source |-> [label |-> IF improvement.sourceType = "" THEN <<improvement.source>>
                                  ELSE <<improvement.source, " - ", improvement.sourceType>>,
                        type |-> "ability-score-improvement"]]]

RECURSIVE AllImprovementBonuses(_)
AllImprovementBonuses(improvements) ==
    IF improvements = <<>> THEN <<>>
    ELSE ImprovementBonuses(Head(improvements)) \o AllImprovementBonuses(Tail(improvements))

\* the part of the rendered bonus list that follows the collected bonuses
RenderedImprovementBonuses ==
    SubSeq(bonuses, Len(collected[1].out) + 1, Len(bonuses))

\* C24: convertAbilityScoresToBonuses returns, in input order, one bonus
\* {target ability.<name>, value n, source.type "ability-score-improvement"}
\* for each "ABBR: n" string whose abbreviation is, whatever its letter case,
\* one of STR/DEX/CON/INT/WIS/CHA and whose n parses as an integer, labelled
\* "<source> - <sourceType>", or "<source>" without source type; every other
\* string is skipped and the remaining ones are kept.
C24_ImprovementsBecomeBonuses ==
    (character # None /\ collected # None) =>
        RenderedImprovementBonuses
            = AsSlots(AllImprovementBonuses(character[1].ability_score_improvements))

\* a feat without source type lists "LCK: 1" and then "dex: -1": the first is
\* skipped, the second gives dexterity -1 under the label "Feat"
C24_Witness_SkippedThenKept ==
    /\ character # None
    /\ collected # None
    /\ Len(character[1].ability_score_improvements) = 2
    /\ character[1].ability_score_improvements[2].sourceType = ""
    /\ character[1].ability_score_improvements[2].abilities
          = <<[abbr |-> "LCK", valueStr |-> Some("1")], [abbr |-> "dex", valueStr |-> Some("-1")]>>
    /\ Len(RenderedImprovementBonuses) = 1
    /\ RenderedImprovementBonuses[1][1].target = Some(Dotted("ability", "dexterity"))
    /\ RenderedImprovementBonuses[1][1].value = Some(-1)
    /\ RenderedImprovementBonuses[1][1].source.label = <<"Feat">>

----------------------------------------------------------------------------
(* Properties of the runs with a change of character *)

\* what is persisted under a key of the character shown, else the initial value
PersistedOr(name, initial) ==
    LET key == StorageKey(name, character[1].id)
    IN IF key \in DOMAIN localStorage THEN JSONParse(localStorage[key]) ELSE initial

\* C25: the custom modifiers and overrides applied to the character shown are
\* those persisted under that character's keys, none when it has none; so no
\* edit writes another character's modifiers or overrides under its keys.
C25_CustomisationsFollowCharacter ==
    character # None =>
        /\ inspectorState.abilityCustomModifiers = PersistedOr("ast_ability_modifiers", EmptyMap)
        /\ inspectorState.abilityCustomOverrides = PersistedOr("ast_ability_overrides", EmptyMap)
        /\ acCustomModifiers = PersistedOr("ast_ac_modifiers", <<>>)
        /\ acCustomOverride =
              (IF StorageKey("ast_ac_override", character[1].id) \in DOMAIN localStorage
               THEN Some(ParseNumberText(localStorage[StorageKey("ast_ac_override", character[1].id)]))
               ELSE None)

----------------------------------------------------------------------------
(* Properties of the runs of the HP modal *)

\* 0 <= currentHP <= maxHP + maxHPModifier and tempHP >= 0
HPWithinBounds ==
    currentHP # None =>
        /\ 0 <= currentHP[1]
        /\ currentHP[1] <= character[1].max_hp + maxHPModifier
        /\ tempHP >= 0

\* an accepted damage step takes min(tempHP, amount) from the temporary HP and
\* the remainder from the current HP, which stops at 0
DamageFromTempFirst ==
    (handleDamage /\ ~IsRejectedAmount(damageInput)) =>
        LET amount == ParseInt(damageInput)[1]
            fromTemp == Min(tempHP, amount)
        IN /\ tempHP' = tempHP - fromTemp
           /\ currentHP' = Some(Max(0, currentHP[1] - (amount - fromTemp)))

\* the amounts that are positive integers
IsPositiveIntegerText(text) == text \in {"1", "2", "7", "25"}

\* a damage or healing step with another amount changes neither HP
RejectedAmountKeepsHP ==
    ((handleDamage \/ handleHealing) /\ ~IsPositiveIntegerText(damageInput)) =>
        UNCHANGED <<currentHP, tempHP>>

\* C29: in every state reached by damage, healing and the three field edits of
\* the HP modal, 0 <= currentHP <= maxHP + maxHPModifier and tempHP >= 0;
\* damage is taken from the temporary HP first and only the remainder from the
\* current HP; an amount that is not a positive integer changes neither
C29_HPStaysWithinBounds ==
    /\ []HPWithinBounds
    /\ [][DamageFromTempFirst]_vars
    /\ [][RejectedAmountKeepsHP]_vars

----------------------------------------------------------------------------
(* Properties of the runs of useCharacter *)

\* the six related fields of the character held are the rows fetched for id
AttachedFor(id) ==
    /\ hookCharacter # None
    /\ \A f \in RelatedFields :
          /\ f \in DOMAIN hookCharacter[1]
          /\ hookCharacter[1][f] = RelatedRows(f, id)

\* C30: once every query started has settled (and none has failed), the
\* skills, spells, inventory, features, feats and senses of the character
\* held are those fetched for the selected character id
C30_AttachedDataIsOfSelectedCharacter ==
    (requests = <<>> /\ error = "") => AttachedFor(selectedCharacterId)

====
